---- MODULE Spec2Model ----
(***************************************************************************)
(* Circuit courseware (three.js lessons): the circuit logic of the lesson  *)
(* pages, each page being one program with its own globals.                *)
(*   lesson3  - free wiring of battery, bulb and switch; BFS checkCircuit  *)
(*   lesson4  - two batteries dragged into the slots of one battery box,   *)
(*              one switch, one bulb                                       *)
(*   lesson5  - two circuits (series, parallel), batteries dragged into    *)
(*              the slots of two battery boxes, one switch per circuit     *)
(*   part_001 - battery, switch and bulb ready wired; info panel           *)
(* Event handlers run to completion (one action each); the only           *)
(* asynchrony is the requestAnimationFrame chain of the switch tween.      *)
(***************************************************************************)
EXTENDS Integers, Sequences, FiniteSets, TLC

\* ------------------------------------------------------------------ bounds
\* Largest number of switch tweens in flight at once that is explored.
MaxPending == 2

\* ------------------------------------------------------------- JS values
Undefined == "undefined"
NoPoint == 0

\* ================================================================== state
VARIABLES
    page,           \* which lesson page is loaded (one program per page)
    wires,          \* lesson3: let wires = []  (array of {start, end})
    isDrawing,      \* lesson3: let isDrawing
    currentLine,    \* lesson3: let currentLine (mesh being drawn, or null)
    startPoint,     \* lesson3: let startPoint (index of the point, 0 = null)
    isSwitchClosed, \* lesson3, lesson4, part_001: let isSwitchClosed
    leverRot,       \* lesson3, lesson4, part_001: rotation.x of the switch lever
                    \* (closed, open or between)
    bulbOn,         \* lesson3, lesson4, part_001: bulb emissive / bulbLight present
    msgDisplay,     \* every page: success-msg style.display
    msgText,        \* lesson3: success-msg innerText
    tweens,         \* every page: pending animateSwitch callbacks, oldest first
    circuits,       \* lesson5: const circuits (switch, bulbs and box slots of each)
    allBatteries,   \* lesson5: const allBatteries (userData and rotation.y of each)
    isDragging,     \* lesson4, lesson5: let isDragging
    dragObject,     \* lesson4, lesson5: let dragObject (battery id, or null)
    batteries,      \* lesson4: const batteries (userData.inSlot and rotation.y of each)
    batteryBox,     \* lesson4: batteryBox.userData.slots
    infoPanel,      \* part_001: info-panel (hidden class, info-title text)
    lifted,         \* part_001: pending bounce timeouts of each group
    lamp,           \* lesson5, lesson6: what turnOnBulbs / turnOnBulb and
                    \* turnOffBulbs / turnOffBulb read and write of the circuit
                    \* object handed to them (its kind, its flag, the
                    \* materials and the light of its bulb)
    stepLog,        \* history: what the last handler or frame callback that
                    \* acted did: its checkCircuit calls, a gesture rejected
    owed            \* history: toggleSwitch calls minus tween checkCircuit calls

vars == <<page, wires, isDrawing, currentLine, startPoint, isSwitchClosed, leverRot,
          bulbOn, msgDisplay, msgText, tweens, circuits, allBatteries, isDragging,
          dragObject, batteries, batteryBox, infoPanel, lifted, lamp, stepLog, owed>>

\* the globals by the pages that have them
wiring3 == <<wires, isDrawing, currentLine, startPoint, msgText>>
switch1 == <<isSwitchClosed, leverRot, bulbOn>>
drag == <<isDragging, dragObject>>
box4 == <<batteries, batteryBox>>
boxes5 == <<circuits, allBatteries>>
panel1 == <<infoPanel, lifted>>

\* ================================================================ lesson3

\* The six connection points, in the order createConnectionPoint pushes them.
ConnectionPoints ==
    << [parent |-> "battery", id |-> Undefined, pole |-> "pos"],
       [parent |-> "battery", id |-> Undefined, pole |-> "neg"],
       [parent |-> "bulb",    id |-> "1",       pole |-> Undefined],
       [parent |-> "bulb",    id |-> "2",       pole |-> Undefined],
       [parent |-> "switch",  id |-> "rear",    pole |-> Undefined],
       [parent |-> "switch",  id |-> "front",   pole |-> Undefined] >>

PointIds == DOMAIN ConnectionPoints

\* Lever angles: the closed angle, the open angle of the page, any angle
\* strictly between the two, any angle past the open one and any angle past
\* the closed one (below 0).
LeverClosed == "0"
LeverOpen3 == "PI/4"
LeverBetween == "between"
LeverAbove == "above"
LeverBelow == "below"

\* mutant: only the start of each wire is looked at
isPointOccupied_StartOnly(userData) ==
    \E i \in DOMAIN wires :
        /\ wires[i].start.parent = userData.parent
        /\ wires[i].start.id = userData.id
        /\ wires[i].start.pole = userData.pole

\* isPointOccupied(userData)
isPointOccupied(userData) ==
    \E i \in DOMAIN wires :
        LET w == wires[i]
            startMatch == /\ w.start.parent = userData.parent
                          /\ w.start.id = userData.id
                          /\ w.start.pole = userData.pole
            endMatch == /\ w.end.parent = userData.parent
                        /\ w.end.id = userData.id
                        /\ w.end.pole = userData.pole
        IN startMatch \/ endMatch

\* `${x.parent}-${x.id || x.pole}` : a node name, as its two tokens
NodeName(x) == << x.parent, IF x.id # Undefined THEN x.id ELSE x.pole >>

\* curr.includes(word) on a node name
Includes(curr, word) == \E k \in DOMAIN curr : curr[k] = word

\* the one value of a const: an expression bound once and evaluated once,
\* however often the code that follows reads it
Only(S) == CHOOSE x \in S : TRUE

startNode == <<"battery", "pos">>
endNode == <<"battery", "neg">>

\* addEdge(u, v) on the adjacency Map (a function from keys to lists)
addEdge(adj, u, v) ==
    LET a1 == IF u \in DOMAIN adj THEN adj ELSE adj @@ (u :> <<>>)
        a2 == IF v \in DOMAIN a1 THEN a1 ELSE a1 @@ (v :> <<>>)
        a3 == [a2 EXCEPT ![u] = Append(@, v)]
    IN [a3 EXCEPT ![v] = Append(@, u)]

\* mutant: only the two wires drawn first are entered in the graph
RECURSIVE AddWires_TwoOnly(_, _, _)
AddWires_TwoOnly(adj, ws, i) ==
    IF i > Len(ws) \/ i > 2 THEN adj
    ELSE AddWires_TwoOnly(addEdge(adj, NodeName(ws[i].start), NodeName(ws[i].end)), ws, i + 1)

\* wires.forEach(wire => addEdge(startNode, endNode)), from the i-th wire on
RECURSIVE AddWires(_, _, _)
AddWires(adj, ws, i) ==
    IF i > Len(ws) THEN adj
    ELSE AddWires(addEdge(adj, NodeName(ws[i].start), NodeName(ws[i].end)), ws, i + 1)

EmptyMap == [x \in {} |-> <<>>]

\* mutant: the switch blade conducts whatever the switch state
BuildGraph_BladeAlways(ws, closed) ==
    addEdge(addEdge(AddWires(EmptyMap, ws, 1), <<"bulb", "1">>, <<"bulb", "2">>),
            <<"switch", "front">>, <<"switch", "rear">>)

\* the graph checkCircuit builds: wires, filament, switch blade when closed
BuildGraph(ws, closed) ==
    LET g1 == AddWires(EmptyMap, ws, 1)
        g2 == addEdge(g1, <<"bulb", "1">>, <<"bulb", "2">>)
    IN IF closed THEN addEdge(g2, <<"switch", "front">>, <<"switch", "rear">>) ELSE g2

\* mutant: the loop does not record the node a neighbour was reached from
RECURSIVE VisitNeighbors_NoParent(_, _, _, _)
VisitNeighbors_NoParent(ns, curr, k, st) ==
    IF k > Len(ns) THEN st
    ELSE LET n == ns[k] IN
         IF n \in st.visited
         THEN VisitNeighbors_NoParent(ns, curr, k + 1, st)
         ELSE VisitNeighbors_NoParent(ns, curr, k + 1,
                  [queue |-> Append(st.queue, n),
                   visited |-> st.visited \cup {n},
                   parent |-> st.parent])

\* for (const n of neighbors) { if (!visited.has(n)) {...} }
RECURSIVE VisitNeighbors(_, _, _, _)
VisitNeighbors(ns, curr, k, st0) ==
    Only({ IF k > Len(ns) THEN st
           ELSE LET n == ns[k] IN
                IF n \in st.visited
                THEN VisitNeighbors(ns, curr, k + 1, st)
                ELSE VisitNeighbors(ns, curr, k + 1,
                         [queue |-> Append(st.queue, n),
                          visited |-> st.visited \cup {n},
                          parent |-> st.parent @@ (n :> curr)])
           : st \in {st0} })

\* while (queue.length > 0) { ... }; order = the nodes queue.shift() returned,
\* in the order of the iterations
RECURSIVE BfsLoop(_, _)
BfsLoop(adj, st0) ==
    Only({ IF st.queue = <<>>
           THEN [found |-> FALSE, parent |-> st.parent, order |-> <<>>]
           ELSE LET curr == Head(st.queue)
                    rest == [st EXCEPT !.queue = Tail(st.queue)]
                IN IF curr = endNode
                   THEN [found |-> TRUE, parent |-> st.parent, order |-> <<curr>>]
                   ELSE LET r == BfsLoop(adj, VisitNeighbors(
                                     IF curr \in DOMAIN adj THEN adj[curr] ELSE <<>>,
                                     curr, 1, rest))
                        IN [r EXCEPT !.order = <<curr>> \o @]
           : st \in {st0} })

\* mutant: the switch is looked for on the end node only
RECURSIVE WalkBack_SwitchAtEndOnly(_, _, _)
WalkBack_SwitchAtEndOnly(curr, parent, acc) ==
    IF curr = startNode THEN acc
    ELSE IF curr \notin DOMAIN parent THEN [acc EXCEPT !.error = TRUE]
    ELSE WalkBack_SwitchAtEndOnly(parent[curr], parent,
                  [hasBulb |-> acc.hasBulb \/ Includes(curr, "bulb"),
                   hasSwitch |-> acc.hasSwitch \/ (curr = endNode /\ Includes(curr, "switch")),
                   error |-> acc.error])

\* while (curr !== startNode) { hasBulb, hasSwitch; curr = parent.get(curr) }
RECURSIVE WalkBack(_, _, _)
WalkBack(curr0, parent, acc0) ==
    Only({ IF curr = startNode THEN acc
           ELSE IF curr \notin DOMAIN parent THEN [acc EXCEPT !.error = TRUE]
           ELSE WalkBack(parent[curr], parent,
                         [hasBulb |-> acc.hasBulb \/ Includes(curr, "bulb"),
                          hasSwitch |-> acc.hasSwitch \/ Includes(curr, "switch"),
                          error |-> acc.error])
           : curr \in {curr0}, acc \in {acc0} })

MsgSwitch == "switch controls the bulb"
MsgNoSwitch == "lit without the switch"
MsgInitial == "initial"

\* turnOffBulb(): bulb dark, light removed, message hidden (text kept)
turnOffBulb(prev) ==
    [bulbOn |-> FALSE, display |-> "none", text |-> prev.text, error |-> FALSE]

\* mutant: the bulb is lit only if it was dark, and darkened if it was lit
turnOnBulb_Flips(prev) == [prev EXCEPT !.bulbOn = ~prev.bulbOn]

\* turnOnBulb()
turnOnBulb(prev) == [prev EXCEPT !.bulbOn = TRUE]

\* mutant: any battery-pos to battery-neg path lights the bulb
checkCircuit_NoBulbCheck(ws, closed, prev) ==
    LET adj == BuildGraph(ws, closed) IN
    IF startNode \notin DOMAIN adj \/ endNode \notin DOMAIN adj
    THEN turnOffBulb(prev)
    ELSE LET r == BfsLoop(adj, [queue |-> <<startNode>>,
                                visited |-> {startNode},
                                parent |-> EmptyMap])
         IN IF r.found
            THEN LET p == WalkBack(endNode, r.parent,
                              [hasBulb |-> FALSE, hasSwitch |-> FALSE, error |-> FALSE])
                 IN [turnOnBulb(prev) EXCEPT
                        !.text = IF p.hasSwitch THEN MsgSwitch ELSE MsgNoSwitch,
                        !.display = "block"]
            ELSE turnOffBulb(prev)

\* checkCircuit(): the verdict it leaves on the page (bulb, message), given the
\* wires, the switch and the page as it was (prev); error = a TypeError thrown
checkCircuit(ws, closed, prev) ==
    Only({ IF startNode \notin DOMAIN adj \/ endNode \notin DOMAIN adj
           THEN turnOffBulb(prev)
           ELSE Only({ IF r.found
                       THEN LET p == Only({WalkBack(endNode, parent,
                                             [hasBulb |-> FALSE, hasSwitch |-> FALSE,
                                              error |-> FALSE])
                                           : parent \in {r.parent}})
                            IN IF p.error
                               THEN [prev EXCEPT !.error = TRUE]
                               ELSE IF p.hasBulb
                               THEN [turnOnBulb(prev) EXCEPT
                                       !.text = IF p.hasSwitch THEN MsgSwitch
                                                ELSE MsgNoSwitch,
                                       !.display = "block"]
                               ELSE turnOffBulb(prev)
                       ELSE turnOffBulb(prev)
                       : r \in {BfsLoop(adj, [queue |-> <<startNode>>,
                                              visited |-> {startNode},
                                              parent |-> EmptyMap])} })
           : adj \in {BuildGraph(ws, closed)} })

\* the page as checkCircuit finds it
Page3 == [bulbOn |-> bulbOn, display |-> msgDisplay, text |-> msgText, error |-> FALSE]

\* write a verdict to the page
Show3(v) ==
    /\ bulbOn' = v.bulbOn
    /\ msgDisplay' = v.display
    /\ msgText' = v.text

HandlerCheck == [by |-> "handler", progress |-> "none"]
Rejection == [by |-> "rejected", progress |-> "none"]

\* the globals of lesson3 as the script leaves them when it has run
Wiring3 ==
    /\ wires = <<>>
    /\ isDrawing = FALSE
    /\ currentLine = FALSE
    /\ startPoint = NoPoint
    /\ msgText = MsgInitial

Constructed3 ==
    /\ Wiring3
    /\ isSwitchClosed = FALSE
    /\ leverRot = LeverOpen3
    /\ bulbOn = FALSE

\* a circuit object as initCircuit pushes it, its bulb as createBulb makes
\* it: isBulbsOn is not set yet, which reads as false; emissiveIntensity of
\* both materials is the three.js default 1 (kept in tenths); no light in
\* the group
NewCircuit(kind) ==
    [kind |-> kind, isBulbsOn |-> FALSE, bulbGlow |-> 10, filamentGlow |-> 10, light |-> 0]

\* no circuit object singled out
NoLamp == NewCircuit("none")

\* what every page starts with
ConstructedPage ==
    /\ msgDisplay = "none"
    /\ lamp = NoLamp
    /\ tweens = <<>>
    /\ stepLog = <<>>
    /\ owed = 0


\* ---------------------------------------------------------- switch tween
\* A tween is the closure of one toggleSwitch call: startRot, targetRot and
\* startTime. The clock is kept as the time since each pending tween's
\* startTime, and that as the progress it gives: "before" (the clock is
\* behind startTime: below 0), "zero" (no time has passed), "part" (less than
\* duration) or "full" (duration or more). Every animateSwitch call reads the
\* clock for itself, so the clock can move between the two readings of
\* toggleSwitch and between two callbacks of one frame, and Date.now() being
\* the wall clock, it can be found set back.
Stages == {"zero", "part", "full"}
AllStages == {"before"} \cup Stages

\* a clock that is not set back can give progress p to a tween it gave
\* progress tw.elapsed before
CanRead(tw, p) ==
    \/ p = tw.elapsed
    \/ tw.elapsed = "before"
    \/ tw.elapsed = "zero" /\ p # "before"
    \/ p = "full"

\* const now = Date.now() in the animateSwitch call of tween k, which finds
\* the tween with progress p: the pending tweens as the clock stands then.
\* When the clock has moved on, no tween is left at its startTime, and the
\* tweens started before tween k have run for as long as it has or longer;
\* when it is found set back, how far is known for tween k alone.
Reading(tws, k, p) ==
    [j \in DOMAIN tws |->
        [tws[j] EXCEPT !.elapsed =
            IF j = k THEN p
            ELSE IF p = tws[k].elapsed THEN @
            ELSE IF ~CanRead(tws[k], p) THEN "before"
            ELSE IF p = "full" /\ j < k THEN "full"
            ELSE IF @ = "zero" THEN "part" ELSE @]]

\* the animateSwitch call of tween k reads the clock and finds progress p
ReadClock(st, k, p) == [st EXCEPT !.tweens = Reading(@, k, p)]

\* the callbacks a run of animateSwitch calls has rescheduled
Kept(r) == [i \in DOMAIN r.keep |-> r.tweens[r.keep[i]]]

\* Math.min((now - startTime) / duration, 1)
Progress(tw) == tw.elapsed

\* the lever angles of a switch whose open angle is open, from the lowest up
Angles(open) == <<LeverBelow, LeverClosed, LeverBetween, open, LeverAbove>>

\* startRot + (targetRot - startRot) * progress: the angles it can be. With
\* progress between 0 and 1 it lies between startRot and targetRot, with
\* progress below 0 it lies past startRot on the side away from targetRot;
\* where startRot is neither end angle, more than one of the angles kept
\* apart here can be the one.
Interpolate(tw, open) ==
    LET place(rot) == CHOOSE i \in 1..5 : Angles(open)[i] = rot
        from == place(tw.startRot)
        to == place(tw.targetRot)
        same == IF from \in {2, 4} THEN {} ELSE {from}
    IN { Angles(open)[i] : i \in
            CASE Progress(tw) = "zero" \/ from = to -> {from}
              [] Progress(tw) = "full" -> {to}
              [] Progress(tw) = "part" ->
                    same \cup {i \in 1..5 : (from < i /\ i < to) \/ (to < i /\ i < from)}
              [] OTHER ->
                    same \cup {i \in 1..5 : IF from < to THEN i < from ELSE from < i} }

\* mutant: the callback is done on the first frame that finds time has passed
TweenDone_Early(tw) == ~(Progress(tw) \in {"before", "zero"})

\* the tween's callback is done (calls checkCircuit) rather than rescheduled
TweenDone(tw) == ~(Progress(tw) \in {"before", "zero", "part"})

\* animateSwitch() of lesson3, for the tweens k, k + 1, ... of st.tweens in
\* turn, tween j finding the clock at progress rs[j]: every outcome there
\* can be;
\* st = [tweens, lever, page, keep, log, call]: the tweens as the clock
\* stands, the lever, the page, the callbacks rescheduled (their places in
\* tweens), the checkCircuit calls made, and where the calls are made from
\* ("frame": the callbacks of an animation frame, "click": the call at the
\* end of toggleSwitch)
RECURSIVE animateSwitch3(_, _, _, _, _)
animateSwitch3(rs, k, ws, closed, st0) ==
    UNION { IF k > Len(st.tweens) THEN {st}
            ELSE UNION { UNION { IF ~TweenDone(now.tweens[k])
                                 THEN animateSwitch3(rs, k + 1, ws, closed,
                                          [now EXCEPT !.lever = rot, !.keep = Append(@, k)])
                                 ELSE animateSwitch3(rs, k + 1, ws, closed,
                                          [now EXCEPT
                                              !.lever = rot,
                                              !.page = checkCircuit(ws, closed,
                                                          [@ EXCEPT !.error = FALSE]),
                                              !.log = Append(@, [by |-> "tween",
                                                                 progress |-> Progress(now.tweens[k]),
                                                                 call |-> now.call])])
                                 : rot \in Interpolate(now.tweens[k], LeverOpen3) }
                         : now \in {ReadClock(st, k, rs[k])} }
            : st \in {st0} }

\* the tweens tws before the animateSwitch calls made from a frame or from a
\* click run: no call made yet; in a frame every callback is still to be
\* rescheduled or dropped, in toggleSwitch the callbacks pending before it
\* stay and the new tween, the last of tws, is the one to run
Pending(tws, from) ==
    [tweens |-> tws, log |-> <<>>, call |-> from,
     keep |-> IF from = "click" THEN [j \in 1..(Len(tws) - 1) |-> j] ELSE <<>>]

\* mutant: the state is flipped and the lever set, but no tween is started
toggleSwitch3_NoTween(p) ==
    /\ isSwitchClosed' = ~isSwitchClosed
    /\ leverRot' = IF isSwitchClosed THEN LeverOpen3 ELSE LeverClosed
    /\ stepLog' = <<>>
    /\ UNCHANGED <<bulbOn, msgDisplay, msgText, tweens, owed>>

\* toggleSwitch(): flip the state, read the clock for startTime and start a
\* tween; its first animateSwitch call runs before toggleSwitch returns and
\* reads the clock again, finding progress p: below 1 it sets the lever and
\* schedules the next frame, at 1 it sets the lever and calls checkCircuit
toggleSwitch3(p) ==
    LET closed == ~isSwitchClosed
        tw == [startRot |-> leverRot,
               targetRot |-> IF closed THEN LeverClosed ELSE LeverOpen3,
               elapsed |-> "zero"]
        tws == Append(tweens, tw)
    IN \E r \in animateSwitch3([k \in DOMAIN tws |-> p], Len(tws), wires, closed,
             [lever |-> leverRot, page |-> Page3] @@ Pending(tws, "click")) :
       /\ isSwitchClosed' = closed
       /\ leverRot' = r.lever
       /\ Show3(r.page)
       /\ tweens' = Kept(r)
       /\ stepLog' = r.log
       /\ owed' = owed + 1 - Len(r.log)

\* the clock advances while no script runs: the n oldest tweens have now run
\* for the whole duration, the younger ones for part of it
Elapse(n) ==
    /\ n \in 0..Len(tweens)
    /\ \A k \in DOMAIN tweens : tweens[k].elapsed = "full" => k <= n
    /\ tweens' = [k \in DOMAIN tweens |->
                    [tweens[k] EXCEPT !.elapsed = IF k <= n THEN "full" ELSE "part"]]
    /\ tweens' # tweens

Tick3(n) ==
    /\ Elapse(n)
    /\ UNCHANGED <<wires, isDrawing, currentLine, startPoint, isSwitchClosed,
                   leverRot, bulbOn, msgDisplay, msgText, stepLog, owed>>

\* an animation frame with tween callbacks pending; callback k finds the
\* clock at progress rs[k]
Frame3(rs) ==
    /\ tweens # <<>>
    /\ \E r \in animateSwitch3(rs, 1, wires, isSwitchClosed,
                    [lever |-> leverRot, page |-> Page3] @@ Pending(tweens, "frame")) :
          /\ leverRot' = r.lever
          /\ Show3(r.page)
          /\ tweens' = Kept(r)
          /\ stepLog' = r.log
          /\ owed' = owed - Len(r.log)
    /\ UNCHANGED <<wires, isDrawing, currentLine, startPoint, isSwitchClosed>>

\* ------------------------------------------------------ lesson3 handlers
\* mousedown on connection point p
MouseDownPoint(p) ==
    /\ IF isPointOccupied(ConnectionPoints[p])
       THEN /\ stepLog' = <<Rejection>>
            /\ UNCHANGED <<isDrawing, startPoint, currentLine>>
       ELSE /\ isDrawing' = TRUE
            /\ startPoint' = p
            /\ currentLine' = TRUE
            /\ stepLog' = <<>>
    /\ UNCHANGED <<wires, isSwitchClosed, leverRot, bulbOn, msgDisplay, msgText,
                   tweens, owed>>

\* mousedown on the switch (no connection point under the pointer)
MouseDownSwitch(p) ==
    /\ toggleSwitch3(p)
    /\ UNCHANGED <<wires, isDrawing, currentLine, startPoint>>

\* mutant: a rejected mouseup keeps the half-drawn line and its start point
MouseUp_KeepsLine(t) ==
    /\ IF isDrawing
       THEN LET endPoint == IF t # NoPoint /\ isPointOccupied(ConnectionPoints[t])
                            THEN NoPoint ELSE t
            IN /\ isDrawing' = FALSE
               /\ IF endPoint # NoPoint /\ endPoint # startPoint
                  THEN LET ws == Append(wires, [start |-> ConnectionPoints[startPoint],
                                                end |-> ConnectionPoints[endPoint]])
                           v == checkCircuit(ws, isSwitchClosed, Page3)
                       IN /\ wires' = ws
                          /\ Show3(v)
                          /\ stepLog' = <<HandlerCheck>>
                          /\ currentLine' = FALSE /\ startPoint' = NoPoint
                  ELSE /\ stepLog' = <<Rejection>>
                       /\ UNCHANGED <<wires, bulbOn, msgDisplay, msgText,
                                      currentLine, startPoint>>
       ELSE UNCHANGED <<wires, isDrawing, currentLine, startPoint,
                       bulbOn, msgDisplay, msgText, stepLog>>
    /\ UNCHANGED <<isSwitchClosed, leverRot, tweens, owed>>

\* mouseup over connection point t, or over none (t = NoPoint)
MouseUp(t) ==
    /\ IF isDrawing
       THEN LET endPoint == IF t # NoPoint /\ isPointOccupied(ConnectionPoints[t])
                            THEN NoPoint ELSE t
            IN /\ isDrawing' = FALSE
               /\ IF endPoint # NoPoint /\ endPoint # startPoint
                  THEN LET ws == Append(wires, [start |-> ConnectionPoints[startPoint],
                                                end |-> ConnectionPoints[endPoint]])
                           v == checkCircuit(ws, isSwitchClosed, Page3)
                       IN /\ wires' = ws
                          /\ Show3(v)
                          /\ stepLog' = <<HandlerCheck>>
                          /\ IF v.error
                             THEN UNCHANGED <<currentLine, startPoint>>
                             ELSE currentLine' = FALSE /\ startPoint' = NoPoint
                  ELSE /\ currentLine' = FALSE
                       /\ startPoint' = NoPoint
                       /\ stepLog' = <<Rejection>>
                       /\ UNCHANGED <<wires, bulbOn, msgDisplay, msgText>>
       ELSE UNCHANGED <<wires, isDrawing, currentLine, startPoint,
                       bulbOn, msgDisplay, msgText, stepLog>>
    /\ UNCHANGED <<isSwitchClosed, leverRot, tweens, owed>>

\* mutant: whichever wire is double-clicked, the first one leaves the array
Splice_RemovesFirst(ws, i) == [k \in 1..(Len(ws) - 1) |-> ws[k + 1]]

\* wires.splice(wireIndex, 1)
Splice(ws, i) == [k \in 1..(Len(ws) - 1) |-> IF k < i THEN ws[k] ELSE ws[k + 1]]

\* mutant: removing a wire also opens the switch
DblClick_OpensSwitch(i) ==
    /\ i \in DOMAIN wires
    /\ wires' = Splice(wires, i)
    /\ isSwitchClosed' = FALSE
    /\ Show3(checkCircuit(wires', isSwitchClosed', Page3))
    /\ stepLog' = <<HandlerCheck>>
    /\ UNCHANGED <<isDrawing, currentLine, startPoint, leverRot, tweens, owed>>

\* dblclick on the mesh of wire i
DblClick(i) ==
    /\ i \in DOMAIN wires
    /\ wires' = Splice(wires, i)
    /\ Show3(checkCircuit(wires', isSwitchClosed, Page3))
    /\ stepLog' = <<HandlerCheck>>
    /\ UNCHANGED <<isDrawing, currentLine, startPoint, isSwitchClosed, leverRot,
                   tweens, owed>>

\* resetCircuit()
resetCircuit ==
    /\ wires' = <<>>
    /\ isSwitchClosed' = FALSE
    /\ leverRot' = LeverOpen3
    /\ Show3(checkCircuit(wires', isSwitchClosed', Page3))
    /\ stepLog' = <<HandlerCheck>>
    /\ UNCHANGED <<isDrawing, currentLine, startPoint, tweens, owed>>

\* fewer than MaxPending tweens are in flight
TweenRoom == Len(tweens) < MaxPending

\* ================================================================ lesson5
\* initCircuit(-6, 0, 'series') and initCircuit(6, 1, 'parallel'), in the
\* order they push to circuits
CircuitOrder == <<0, 1>>
CircuitIds == {CircuitOrder[k] : k \in DOMAIN CircuitOrder}

\* box.userData.slots of every battery box, in array order (ids)
SlotOrder == <<1, 2>>
SlotIds == {SlotOrder[k] : k \in DOMAIN SlotOrder}

\* allBatteries in push order: ids id * 10 + 1 and id * 10 + 2 of each circuit
BatteryOrder == <<1, 2, 11, 12>>
BatteryIds == {BatteryOrder[k] : k \in DOMAIN BatteryOrder}

\* a slot object is known by its box (the circuit id) and its id
SlotRefs == <<<<0, 1>>, <<0, 2>>, <<1, 1>>, <<1, 2>>>>

\* null, for each kind of reference
NoBox == -1
NoSlot == <<>>
NoBattery == 0

LeverOpen5 == "PI/3"

\* slot.expectedDir.x
ExpectedDirX(s) == IF s = 1 THEN -1 ELSE 1

\* mutant: the battery's turn is not looked at
Dot10_NoTurn(batt) == 10

\* the click handler (lesson4, lesson5) with battery b first under the
\* pointer, on the batteries: if (isDragging) return; obj.rotation.y += Math.PI
\* (rotation.y is kept as the number of half turns, modulo a full turn)
clickBattery(dragging, bats, b) ==
    IF dragging THEN bats ELSE [bats EXCEPT ![b].rotationY = (@ + 1) % 2]

\* ten times battDir . boxRightWorld: the battery lies along the box's x axis,
\* turned by rotation.y, which is counted in half turns
Dot10(batt) == IF batt.rotationY % 2 = 0 THEN 10 ELSE -10

\* the globals of lesson5 as the script leaves them when it has run
\* (isBulbsOn is not set yet, which reads as false)
Boxes5 ==
    /\ circuits = [c \in CircuitIds |->
                     [isSwitchClosed |-> FALSE, isBulbsOn |-> FALSE,
                      leverRot |-> LeverOpen5,
                      slots |-> [s \in SlotIds |-> [occupied |-> FALSE]]]]
    /\ allBatteries = [b \in BatteryIds |->
                         [parentBox |-> NoBox, inSlot |-> NoSlot, rotationY |-> 0]]

Constructed5 ==
    /\ Boxes5
    /\ isDragging = FALSE
    /\ dragObject = NoBattery

\* slot.occupied = v
SetOccupied(cs, slot, v) == [cs EXCEPT ![slot[1]].slots[slot[2]].occupied = v]

\* allBatteries.find(b => b.userData.parentBox === box && b.userData.inSlot === slot)
FindBattery(bats, c, s) ==
    LET hits == {k \in DOMAIN BatteryOrder :
                    /\ bats[BatteryOrder[k]].parentBox = c
                    /\ bats[BatteryOrder[k]].inSlot = <<c, s>>}
    IN IF hits = {} THEN NoBattery
       ELSE BatteryOrder[CHOOSE k \in hits : \A j \in hits : k <= j]

\* the loop of checkCircuit over box.userData.slots, from the i-th slot on
RECURSIVE SlotsValid(_, _, _, _, _)
SlotsValid(cs, bats, c, i, allValid) ==
    IF i > Len(SlotOrder) THEN allValid
    ELSE LET s == SlotOrder[i]
             batt == FindBattery(bats, c, s)
         IN IF ~cs[c].slots[s].occupied THEN FALSE
            ELSE IF batt = NoBattery THEN FALSE
            ELSE LET dot == Dot10(bats[batt])
                     wrong == IF ExpectedDirX(s) < 0 THEN dot > -8 ELSE dot < 8
                 IN SlotsValid(cs, bats, c, i + 1, IF wrong THEN FALSE ELSE allValid)

turnOnBulbs(circuit) == [circuit EXCEPT !.isBulbsOn = TRUE]

\* mutant: darkening the bulbs also opens the circuit's switch
turnOffBulbs_OpensSwitch(circuit) ==
    [circuit EXCEPT !.isBulbsOn = FALSE, !.isSwitchClosed = FALSE]

turnOffBulbs(circuit) == [circuit EXCEPT !.isBulbsOn = FALSE]

\* mutant: the message follows the bulbs of the circuit just checked alone
checkCircuit5_OwnMessage(pg, bats, c) ==
    LET allValid == SlotsValid(pg.circuits, bats, c, 1, TRUE)
        cs == [pg.circuits EXCEPT ![c] =
                  IF allValid /\ @.isSwitchClosed THEN turnOnBulbs(@) ELSE turnOffBulbs(@)]
    IN [circuits |-> cs, display |-> IF cs[c].isBulbsOn THEN "block" ELSE "none"]

\* mutant: the verdict found for one circuit is written to the bulbs of all
checkCircuit5_AllBulbs(pg, bats, c) ==
    LET allValid == SlotsValid(pg.circuits, bats, c, 1, TRUE)
        lit == allValid /\ pg.circuits[c].isSwitchClosed
        cs == [d \in CircuitIds |->
                  IF lit THEN turnOnBulbs(pg.circuits[d]) ELSE turnOffBulbs(pg.circuits[d])]
    IN [circuits |-> cs, display |-> IF lit THEN "block" ELSE "none"]

\* checkCircuit(circuit) on the page pg = [circuits, display]
checkCircuit5(pg, bats, c) ==
    LET allValid == SlotsValid(pg.circuits, bats, c, 1, TRUE)
        cs == [pg.circuits EXCEPT ![c] =
                  IF allValid /\ @.isSwitchClosed THEN turnOnBulbs(@) ELSE turnOffBulbs(@)]
        anyOn == \E d \in CircuitIds : cs[d].isBulbsOn
    IN [circuits |-> cs, display |-> IF anyOn THEN "block" ELSE "none"]

\* circuits.forEach(c => checkCircuit(c)), from the i-th circuit on
RECURSIVE checkAll5(_, _, _)
checkAll5(pg0, bats, i) ==
    Only({ IF i > Len(CircuitOrder) THEN pg
           ELSE checkAll5(checkCircuit5(pg, bats, CircuitOrder[i]), bats, i + 1)
           : pg \in {pg0} })

HandlerCheck5(c) == [by |-> "handler", progress |-> "none", circuit |-> c]
HandlerChecksAll5 == [k \in DOMAIN CircuitOrder |-> HandlerCheck5(CircuitOrder[k])]

\* mutant: the slot a battery is moved out of stays flagged occupied
checkDrop5_KeepsOldSlot(cs, bats, b, near) ==
    LET free(sl) == \/ ~cs[sl[1]].slots[sl[2]].occupied
                    \/ bats[b].inSlot = sl /\ bats[b].parentBox = sl[1]
        hits == {k \in DOMAIN SlotRefs : SlotRefs[k] \in near /\ free(SlotRefs[k])}
    IN IF hits # {}
       THEN LET slot == SlotRefs[CHOOSE k \in hits : \A j \in hits : k <= j]
            IN [circuits |-> SetOccupied(cs, slot, TRUE),
                batteries |-> [bats EXCEPT ![b].parentBox = slot[1], ![b].inSlot = slot]]
       ELSE IF bats[b].inSlot # NoSlot
            THEN [circuits |-> SetOccupied(cs, bats[b].inSlot, FALSE),
                  batteries |-> [bats EXCEPT ![b].inSlot = NoSlot, ![b].parentBox = NoBox]]
            ELSE [circuits |-> cs, batteries |-> bats]

\* checkDrop(battery); near is the set of slots within distance 1.0 of it
checkDrop5(cs, bats, b, near) ==
    LET free(sl) == \/ ~cs[sl[1]].slots[sl[2]].occupied
                    \/ bats[b].inSlot = sl /\ bats[b].parentBox = sl[1]
        hits == {k \in DOMAIN SlotRefs : SlotRefs[k] \in near /\ free(SlotRefs[k])}
    IN IF hits # {}
       THEN LET slot == SlotRefs[CHOOSE k \in hits : \A j \in hits : k <= j]
                left == IF bats[b].parentBox # NoBox /\ bats[b].inSlot # NoSlot
                        THEN SetOccupied(cs, bats[b].inSlot, FALSE)
                        ELSE cs
            IN [circuits |-> SetOccupied(left, slot, TRUE),
                batteries |-> [bats EXCEPT ![b].parentBox = slot[1], ![b].inSlot = slot]]
       ELSE IF bats[b].inSlot # NoSlot
            THEN [circuits |-> SetOccupied(cs, bats[b].inSlot, FALSE),
                  batteries |-> [bats EXCEPT ![b].inSlot = NoSlot, ![b].parentBox = NoBox]]
            ELSE [circuits |-> cs, batteries |-> bats]

\* the page as checkCircuit finds it
Page5 == [circuits |-> circuits, display |-> msgDisplay]

\* animateSwitch() of lesson5, for the tweens k, k + 1, ... of st.tweens in
\* turn, tween j finding the clock at progress rs[j]: every outcome there
\* can be; st = [tweens, page, keep, log, call] as in lesson3
RECURSIVE animateSwitch5(_, _, _, _)
animateSwitch5(rs, k, bats, st0) ==
    UNION { IF k > Len(st.tweens) THEN {st}
            ELSE UNION { UNION { IF ~TweenDone(now.tweens[k])
                                 THEN animateSwitch5(rs, k + 1, bats,
                                          [now EXCEPT
                                              !.page.circuits[now.tweens[k].circuit].leverRot = rot,
                                              !.keep = Append(@, k)])
                                 ELSE animateSwitch5(rs, k + 1, bats,
                                          [now EXCEPT
                                              !.page = Only({ checkCircuit5(pg, bats, now.tweens[k].circuit) :
                                                          pg \in {[@ EXCEPT
                                                             !.circuits[now.tweens[k].circuit].leverRot =
                                                                 now.tweens[k].targetRot]} }),
                                              !.log = Append(@, [by |-> "tween",
                                                                 progress |-> Progress(now.tweens[k]),
                                                                 call |-> now.call,
                                                                 circuit |-> now.tweens[k].circuit])])
                                 : rot \in Interpolate(now.tweens[k], LeverOpen5) }
                         : now \in {ReadClock(st, k, rs[k])} }
            : st \in {st0} }

\* toggleSwitch(circuit): flip the circuit's switch, read the clock for
\* startTime and start a tween on its lever; the first animateSwitch call runs
\* before toggleSwitch returns and finds progress p
toggleSwitch5(c, p) ==
    LET closed == ~circuits[c].isSwitchClosed
        tw == [startRot |-> circuits[c].leverRot,
               targetRot |-> IF closed THEN LeverClosed ELSE LeverOpen5,
               elapsed |-> "zero",
               circuit |-> c]
        tws == Append(tweens, tw)
    IN \E r \in animateSwitch5([k \in DOMAIN tws |-> p], Len(tws), allBatteries,
             [page |-> [Page5 EXCEPT !.circuits[c].isSwitchClosed = closed]]
                 @@ Pending(tws, "click")) :
       /\ circuits' = r.page.circuits
       /\ msgDisplay' = r.page.display
       /\ tweens' = Kept(r)
       /\ stepLog' = r.log
       /\ owed' = owed + 1 - Len(r.log)
       /\ UNCHANGED <<allBatteries, isDragging, dragObject>>

\* an animation frame with tween callbacks pending; callback k finds the
\* clock at progress rs[k]
Frame5(rs) ==
    /\ tweens # <<>>
    /\ \E r \in animateSwitch5(rs, 1, allBatteries,
                    [page |-> Page5] @@ Pending(tweens, "frame")) :
          /\ circuits' = r.page.circuits
          /\ msgDisplay' = r.page.display
          /\ tweens' = Kept(r)
          /\ stepLog' = r.log
          /\ owed' = owed - Len(r.log)
    /\ UNCHANGED <<allBatteries, isDragging, dragObject>>

Tick5(n) ==
    /\ Elapse(n)
    /\ UNCHANGED <<circuits, allBatteries, isDragging, dragObject, msgDisplay,
                   stepLog, owed>>

\* mousedown on battery b
MouseDown5(b) ==
    /\ isDragging' = TRUE
    /\ dragObject' = b
    /\ stepLog' = <<>>
    /\ UNCHANGED <<circuits, allBatteries, msgDisplay, tweens, owed>>

\* mouseup with the dragged battery within reach of the slots in near
MouseUp5(near) ==
    IF isDragging /\ dragObject # NoBattery
    THEN LET d == checkDrop5(circuits, allBatteries, dragObject, near)
             pg == checkAll5([circuits |-> d.circuits, display |-> msgDisplay],
                             d.batteries, 1)
         IN /\ isDragging' = FALSE
            /\ allBatteries' = d.batteries
            /\ circuits' = pg.circuits
            /\ msgDisplay' = pg.display
            /\ dragObject' = NoBattery
            /\ stepLog' = HandlerChecksAll5
            /\ UNCHANGED <<tweens, owed>>
    ELSE UNCHANGED <<circuits, allBatteries, isDragging, dragObject, msgDisplay,
                     tweens, stepLog, owed>>

\* click with the switch of circuit c under the pointer
ClickSwitch5(c, p) ==
    IF isDragging
    THEN UNCHANGED <<circuits, allBatteries, isDragging, dragObject, msgDisplay,
                     tweens, stepLog, owed>>
    ELSE toggleSwitch5(c, p)

\* click with battery b, and no switch, under the pointer
ClickBattery5(b) ==
    IF isDragging
    THEN UNCHANGED <<circuits, allBatteries, isDragging, dragObject, msgDisplay,
                     tweens, stepLog, owed>>
    ELSE LET bats == clickBattery(isDragging, allBatteries, b)
             pg == checkAll5(Page5, bats, 1)
         IN /\ allBatteries' = bats
            /\ circuits' = pg.circuits
            /\ msgDisplay' = pg.display
            /\ stepLog' = HandlerChecksAll5
            /\ UNCHANGED <<isDragging, dragObject, tweens, owed>>

\* click on reset-btn
Reset5 ==
    /\ circuits' = [c \in CircuitIds |->
                      turnOffBulbs([circuits[c] EXCEPT
                          !.isSwitchClosed = FALSE,
                          !.leverRot = LeverOpen5,
                          !.slots = [s \in SlotIds |-> [occupied |-> FALSE]]])]
    /\ allBatteries' = [b \in BatteryIds |->
                          [parentBox |-> NoBox, inSlot |-> NoSlot, rotationY |-> 0]]
    /\ msgDisplay' = "none"
    /\ stepLog' = <<>>
    /\ UNCHANGED <<isDragging, dragObject, tweens, owed>>

\* the slots a battery can be dropped within reach of: one slot or none (the
\* slots lie at least 2.0 apart)
DropTargets == {{}} \cup {{SlotRefs[k]} : k \in DOMAIN SlotRefs}

\* ================================================================ lesson4
\* batteries in push order (battery1 = createBattery(1), battery2 = createBattery(2))
BatteryOrder4 == <<1, 2>>
BatteryIds4 == {BatteryOrder4[k] : k \in DOMAIN BatteryOrder4}

\* batteryBox.userData.slots in array order (ids)
SlotOrder4 == <<1, 2>>
SlotIds4 == {SlotOrder4[k] : k \in DOMAIN SlotOrder4}

\* userData.inSlot = null
NoSlotId == 0

LeverOpen4 == "PI/3"

\* the battery and box globals of lesson4 as the script leaves them
Box4 ==
    /\ batteries = [b \in BatteryIds4 |-> [inSlot |-> NoSlotId, rotationY |-> 0]]
    /\ batteryBox = [s \in SlotIds4 |-> [occupied |-> FALSE]]

\* the globals of lesson4 as the script leaves them when it has run
Constructed4 ==
    /\ Box4
    /\ isSwitchClosed = FALSE
    /\ leverRot = LeverOpen4
    /\ bulbOn = FALSE
    /\ isDragging = FALSE
    /\ dragObject = NoBattery

\* batteries.find(b => b.userData.inSlot === s)
FindBattery4(bats, s) ==
    LET hits == {k \in DOMAIN BatteryOrder4 : bats[BatteryOrder4[k]].inSlot = s}
    IN IF hits = {} THEN NoBattery
       ELSE BatteryOrder4[CHOOSE k \in hits : \A j \in hits : k <= j]

\* turnOffBulb() and turnOnBulb() on the page pg = [bulbOn, display]
turnOffBulb4(pg) == [pg EXCEPT !.bulbOn = FALSE]
turnOnBulb4(pg) == [pg EXCEPT !.bulbOn = TRUE]

\* mutant: the switch state is not looked at
checkCircuit4_NoSwitch(box, bats, closed, pg) ==
    IF ~box[SlotOrder4[1]].occupied \/ ~box[SlotOrder4[2]].occupied
    THEN turnOffBulb4(pg)
    ELSE LET b1 == FindBattery4(bats, 1)
             b2 == FindBattery4(bats, 2)
         IN IF b1 = NoBattery \/ b2 = NoBattery THEN pg
            ELSE IF Dot10(bats[b1]) < -8 /\ Dot10(bats[b2]) > 8
                 THEN [turnOnBulb4(pg) EXCEPT !.display = "block"]
                 ELSE [turnOffBulb4(pg) EXCEPT !.display = "none"]

\* checkCircuit() on the page pg = [bulbOn, display]
checkCircuit4(box, bats, closed, pg) ==
    IF ~box[SlotOrder4[1]].occupied \/ ~box[SlotOrder4[2]].occupied
    THEN turnOffBulb4(pg)
    ELSE LET b1 == FindBattery4(bats, 1)
             b2 == FindBattery4(bats, 2)
         IN IF b1 = NoBattery \/ b2 = NoBattery THEN pg
            ELSE LET valid1 == Dot10(bats[b1]) < -8
                     valid2 == Dot10(bats[b2]) > 8
                 IN IF valid1 /\ valid2 /\ closed
                    THEN [turnOnBulb4(pg) EXCEPT !.display = "block"]
                    ELSE [turnOffBulb4(pg) EXCEPT !.display = "none"]

\* checkDrop(battery); near is the set of slot ids within distance 1.0 of it
checkDrop4(box, bats, b, near) ==
    LET hits == {k \in DOMAIN SlotOrder4 :
                    /\ SlotOrder4[k] \in near
                    /\ ~box[SlotOrder4[k]].occupied \/ bats[b].inSlot = SlotOrder4[k]}
    IN IF hits # {}
       THEN LET s == SlotOrder4[CHOOSE k \in hits : \A j \in hits : k <= j]
            IN [box |-> [box EXCEPT ![s].occupied = TRUE],
                batteries |-> [bats EXCEPT ![b].inSlot = s]]
       ELSE IF bats[b].inSlot # NoSlotId
            THEN [box |-> [box EXCEPT ![bats[b].inSlot].occupied = FALSE],
                  batteries |-> [bats EXCEPT ![b].inSlot = NoSlotId]]
            ELSE [box |-> box, batteries |-> bats]

\* the page as checkCircuit finds it
Page4 == [bulbOn |-> bulbOn, display |-> msgDisplay]

\* write a verdict to the page
Show4(v) ==
    /\ bulbOn' = v.bulbOn
    /\ msgDisplay' = v.display

\* animateSwitch() of lesson4, for the tweens k, k + 1, ... of st.tweens in
\* turn, tween j finding the clock at progress rs[j]: every outcome there
\* can be; st = [tweens, lever, page, keep, log, call] as in lesson3
RECURSIVE animateSwitch4(_, _, _, _, _, _)
animateSwitch4(rs, k, box, bats, closed, st0) ==
    UNION { IF k > Len(st.tweens) THEN {st}
            ELSE UNION { UNION { IF ~TweenDone(now.tweens[k])
                                 THEN animateSwitch4(rs, k + 1, box, bats, closed,
                                          [now EXCEPT !.lever = rot, !.keep = Append(@, k)])
                                 ELSE animateSwitch4(rs, k + 1, box, bats, closed,
                                          [now EXCEPT
                                              !.lever = now.tweens[k].targetRot,
                                              !.page = checkCircuit4(box, bats, closed, @),
                                              !.log = Append(@, [by |-> "tween",
                                                                 progress |-> Progress(now.tweens[k]),
                                                                 call |-> now.call])])
                                 : rot \in Interpolate(now.tweens[k], LeverOpen4) }
                         : now \in {ReadClock(st, k, rs[k])} }
            : st \in {st0} }

\* toggleSwitch(): the target follows from the state before the flip; the
\* first animateSwitch call runs before toggleSwitch returns and finds
\* progress p
toggleSwitch4(p) ==
    LET tw == [startRot |-> leverRot,
               targetRot |-> IF isSwitchClosed THEN LeverOpen4 ELSE LeverClosed,
               elapsed |-> "zero"]
        tws == Append(tweens, tw)
    IN \E r \in animateSwitch4([k \in DOMAIN tws |-> p], Len(tws), batteryBox, batteries,
             ~isSwitchClosed, [lever |-> leverRot, page |-> Page4] @@ Pending(tws, "click")) :
       /\ isSwitchClosed' = ~isSwitchClosed
       /\ leverRot' = r.lever
       /\ Show4(r.page)
       /\ tweens' = Kept(r)
       /\ stepLog' = r.log
       /\ owed' = owed + 1 - Len(r.log)
       /\ UNCHANGED <<batteries, batteryBox, isDragging, dragObject>>

\* an animation frame with tween callbacks pending; callback k finds the
\* clock at progress rs[k]
Frame4(rs) ==
    /\ tweens # <<>>
    /\ \E r \in animateSwitch4(rs, 1, batteryBox, batteries, isSwitchClosed,
                    [lever |-> leverRot, page |-> Page4] @@ Pending(tweens, "frame")) :
          /\ leverRot' = r.lever
          /\ Show4(r.page)
          /\ tweens' = Kept(r)
          /\ stepLog' = r.log
          /\ owed' = owed - Len(r.log)
    /\ UNCHANGED <<isSwitchClosed, batteries, batteryBox, isDragging, dragObject>>

Tick4(n) ==
    /\ Elapse(n)
    /\ UNCHANGED <<isSwitchClosed, leverRot, bulbOn, msgDisplay, batteries, batteryBox,
                   isDragging, dragObject, stepLog, owed>>

\* every global of lesson4 but stepLog is left alone
Ignored4 ==
    UNCHANGED <<isSwitchClosed, leverRot, bulbOn, msgDisplay, batteries, batteryBox,
                isDragging, dragObject, tweens, owed>>

\* mousedown on battery b
MouseDown4(b) ==
    /\ isDragging' = TRUE
    /\ dragObject' = b
    /\ stepLog' = <<>>
    /\ UNCHANGED <<isSwitchClosed, leverRot, bulbOn, msgDisplay, batteries, batteryBox,
                   tweens, owed>>

\* mouseup with the dragged battery within reach of the slots in near
MouseUp4(near) ==
    IF isDragging /\ dragObject # NoBattery
    THEN LET d == checkDrop4(batteryBox, batteries, dragObject, near)
         IN /\ isDragging' = FALSE
            /\ batteryBox' = d.box
            /\ batteries' = d.batteries
            /\ Show4(checkCircuit4(d.box, d.batteries, isSwitchClosed, Page4))
            /\ dragObject' = NoBattery
            /\ stepLog' = <<HandlerCheck>>
            /\ UNCHANGED <<isSwitchClosed, leverRot, tweens, owed>>
    ELSE Ignored4 /\ UNCHANGED stepLog

\* click with the switch first under the pointer
ClickSwitch4(p) ==
    IF isDragging THEN Ignored4 /\ UNCHANGED stepLog
    ELSE toggleSwitch4(p)

\* click with battery b, and no part of the switch, first under the pointer
ClickBattery4(b) ==
    IF isDragging THEN Ignored4 /\ UNCHANGED stepLog
    ELSE LET bats == clickBattery(isDragging, batteries, b)
         IN /\ batteries' = bats
            /\ Show4(checkCircuit4(batteryBox, bats, isSwitchClosed, Page4))
            /\ stepLog' = <<HandlerCheck>>
            /\ UNCHANGED <<isSwitchClosed, leverRot, batteryBox, isDragging, dragObject,
                           tweens, owed>>

\* mutant: the reset handler puts the batteries back without a checkCircuit
\* call
Reset4_NoCheck ==
    /\ batteries' = [b \in BatteryIds4 |-> [inSlot |-> NoSlotId, rotationY |-> 0]]
    /\ batteryBox' = [s \in SlotIds4 |-> [occupied |-> FALSE]]
    /\ stepLog' = <<>>
    /\ UNCHANGED <<bulbOn, msgDisplay, isSwitchClosed, leverRot, isDragging,
                   dragObject, tweens, owed>>

\* click on reset-btn
Reset4 ==
    LET bats == [b \in BatteryIds4 |-> [inSlot |-> NoSlotId, rotationY |-> 0]]
        box == [s \in SlotIds4 |-> [occupied |-> FALSE]]
    IN /\ batteries' = bats
       /\ batteryBox' = box
       /\ Show4(checkCircuit4(box, bats, isSwitchClosed, Page4))
       /\ stepLog' = <<HandlerCheck>>
       /\ UNCHANGED <<isSwitchClosed, leverRot, isDragging, dragObject, tweens, owed>>

\* the slots a battery can be dropped within reach of: one slot or none
DropTargets4 == {{}} \cup {{s} : s \in SlotIds4}

\* =============================================================== part_001
\* the meshes a click can hit first: the battery's body and its two terminals,
\* the bulb, the switch
Parts1 == {"battery", "pos", "neg", "bulb", "switch"}

\* the named group found by walking up from the mesh
GroupOf(hit) == IF hit \in {"battery", "pos", "neg"} THEN "battery" ELSE hit

\* the mesh has a userData.title of its own (the battery terminals)
HasTitle(hit) == hit \in {"pos", "neg"}

\* the groups that bounce when clicked
Bouncers == {"battery", "bulb"}

\* the info panel and the bounce timers as the script leaves them; the panel
\* shows the userData of the object named in title
Panel1 ==
    /\ infoPanel = [hidden |-> TRUE, title |-> ""]
    /\ lifted = [g \in Bouncers |-> 0]

\* the globals of part_001 as the script leaves them when it has run (the
\* lever is at PI/4, as in lesson3)
Constructed1 ==
    /\ Panel1
    /\ isSwitchClosed = FALSE
    /\ leverRot = LeverOpen3
    /\ bulbOn = FALSE

\* showInfo(title, desc) on the panel
showInfo(panel, name) == [panel EXCEPT !.hidden = FALSE, !.title = name]

\* updateCircuitState(): the bulb follows the switch
updateCircuitState(closed) == closed

\* animateSwitch() of part_001, for the tweens k, k + 1, ... of st.tweens
\* in turn, tween j finding the clock at progress rs[j]: every outcome there
\* can be; st = [tweens, lever, bulbOn, keep, log, call] as in lesson3
RECURSIVE animateSwitch1(_, _, _, _)
animateSwitch1(rs, k, closed, st0) ==
    UNION { IF k > Len(st.tweens) THEN {st}
            ELSE UNION { UNION { IF ~TweenDone(now.tweens[k])
                                 THEN animateSwitch1(rs, k + 1, closed,
                                          [now EXCEPT !.lever = rot, !.keep = Append(@, k)])
                                 ELSE animateSwitch1(rs, k + 1, closed,
                                          [now EXCEPT
                                              !.lever = rot,
                                              !.bulbOn = updateCircuitState(closed),
                                              !.log = Append(@, [by |-> "tween",
                                                                 progress |-> Progress(now.tweens[k]),
                                                                 call |-> now.call])])
                                 : rot \in Interpolate(now.tweens[k], LeverOpen3) }
                         : now \in {ReadClock(st, k, rs[k])} }
            : st \in {st0} }

\* an animation frame with tween callbacks pending; callback k finds the
\* clock at progress rs[k]
Frame1(rs) ==
    /\ tweens # <<>>
    /\ \E r \in animateSwitch1(rs, 1, isSwitchClosed,
                    [lever |-> leverRot, bulbOn |-> bulbOn] @@ Pending(tweens, "frame")) :
          /\ leverRot' = r.lever
          /\ bulbOn' = r.bulbOn
          /\ tweens' = Kept(r)
          /\ stepLog' = r.log
          /\ owed' = owed - Len(r.log)
    /\ UNCHANGED <<isSwitchClosed, infoPanel, lifted>>

Tick1(n) ==
    /\ Elapse(n)
    /\ UNCHANGED <<isSwitchClosed, leverRot, bulbOn, infoPanel, lifted, stepLog, owed>>

\* onMouseClick with mesh hit first under the pointer ("none": nothing is),
\* the panel being as given; p is the progress the switch's first
\* animateSwitch call finds
onMouseClick(hit, panel, p) ==
    IF hit = "none"
    THEN /\ infoPanel' = panel
         /\ stepLog' = <<>>
         /\ UNCHANGED <<isSwitchClosed, leverRot, bulbOn, lifted, tweens, owed>>
    ELSE IF HasTitle(hit)
    THEN /\ infoPanel' = showInfo(panel, hit)
         /\ stepLog' = <<>>
         /\ UNCHANGED <<isSwitchClosed, leverRot, bulbOn, lifted, tweens, owed>>
    ELSE IF GroupOf(hit) = "switch"
    THEN LET closed == ~isSwitchClosed
             tw == [startRot |-> leverRot,
                    targetRot |-> IF closed THEN LeverClosed ELSE LeverOpen3,
                    elapsed |-> "zero"]
             tws == Append(tweens, tw)
         IN \E r \in animateSwitch1([k \in DOMAIN tws |-> p], Len(tws), closed,
                  [lever |-> leverRot, bulbOn |-> bulbOn] @@ Pending(tws, "click")) :
            /\ isSwitchClosed' = closed
            /\ leverRot' = r.lever
            /\ bulbOn' = r.bulbOn
            /\ tweens' = Kept(r)
            /\ owed' = owed + 1 - Len(r.log)
            /\ infoPanel' = showInfo(panel, "switch")
            /\ stepLog' = r.log
            /\ UNCHANGED lifted
    ELSE /\ infoPanel' = showInfo(panel, GroupOf(hit))
         /\ lifted' = [lifted EXCEPT ![GroupOf(hit)] = @ + 1]
         /\ stepLog' = <<>>
         /\ UNCHANGED <<isSwitchClosed, leverRot, bulbOn, tweens, owed>>

\* click on the scene
Click1(hit, p) == onMouseClick(hit, infoPanel, p)

\* click on close-btn: its own listener hides the panel, then the click
\* reaches the window's listener
CloseClick1(hit, p) == onMouseClick(hit, [infoPanel EXCEPT !.hidden = TRUE], p)

\* the bounce timeout of group g fires
BounceBack1(g) ==
    /\ lifted[g] > 0
    /\ lifted' = [lifted EXCEPT ![g] = @ - 1]
    /\ UNCHANGED <<isSwitchClosed, leverRot, bulbOn, infoPanel, tweens, stepLog, owed>>

\* the click starts no more than MaxPending callbacks of a kind
Room1(hit) ==
    /\ GroupOf(hit) \in Bouncers /\ ~HasTitle(hit) => lifted[GroupOf(hit)] < MaxPending
    /\ hit = "switch" => Len(tweens) < MaxPending

\* ============================== part_000 and lesson6 (second script)
\* The first wiring page (part_000) and the wiring script that follows the
\* battery-box script in lesson6/script.js ("lesson6b"): a battery and a bulb,
\* four connection points, in the order they are pushed. Neither script looks
\* at whether a point already carries a wire.
ConnectionPoints0 ==
    << [parent |-> "battery", id |-> Undefined, pole |-> "pos"],
       [parent |-> "battery", id |-> Undefined, pole |-> "neg"],
       [parent |-> "bulb",    id |-> "1",       pole |-> Undefined],
       [parent |-> "bulb",    id |-> "2",       pole |-> Undefined] >>

PointIds0 == DOMAIN ConnectionPoints0

\* the most wires drawn on these two pages
MaxWires == 3

\* wires.forEach(...): some wire joins the battery pole to a bulb point
PoleToBulb(ws, pole) ==
    \E k \in DOMAIN ws :
        LET s == ws[k].start
            e == ws[k].end
        IN \/ s.parent = "battery" /\ s.pole = pole /\ e.parent = "bulb"
           \/ e.parent = "battery" /\ e.pole = pole /\ s.parent = "bulb"

\* lightUp()
lightUp(pg) == [pg EXCEPT !.bulbOn = TRUE, !.display = "block"]

\* checkCircuit() of part_000: no else branch
checkCircuit0(ws, pg) ==
    IF PoleToBulb(ws, "pos") /\ PoleToBulb(ws, "neg") THEN lightUp(pg) ELSE pg

\* checkCircuit() of lesson6b: the else branch darkens the bulb and hides the
\* message
checkCircuit6(ws, pg) ==
    IF PoleToBulb(ws, "pos") /\ PoleToBulb(ws, "neg") THEN lightUp(pg)
    ELSE [pg EXCEPT !.bulbOn = FALSE, !.display = "none"]

checkCircuitOf(pg, ws) ==
    IF page = "part_000" THEN checkCircuit0(ws, pg) ELSE checkCircuit6(ws, pg)

\* the page as checkCircuit finds it
Page0 == [bulbOn |-> bulbOn, display |-> msgDisplay]

\* mousedown on connection point p: a new temporary line from p
MouseDown0(p) ==
    /\ isDrawing' = TRUE
    /\ startPoint' = p
    /\ currentLine' = TRUE
    /\ stepLog' = <<>>
    /\ UNCHANGED <<wires, bulbOn, msgDisplay>>

\* mouseup over connection point t, or over none (NoPoint)
MouseUp0(t) ==
    IF isDrawing
    THEN /\ isDrawing' = FALSE
         /\ currentLine' = FALSE
         /\ startPoint' = NoPoint
         /\ IF t # NoPoint /\ t # startPoint
            THEN LET ws == Append(wires, [start |-> ConnectionPoints0[startPoint],
                                          end |-> ConnectionPoints0[t]])
                     v == checkCircuitOf(Page0, ws)
                 IN /\ wires' = ws
                    /\ bulbOn' = v.bulbOn
                    /\ msgDisplay' = v.display
                    /\ stepLog' = <<HandlerCheck>>
            ELSE /\ stepLog' = <<Rejection>>
                 /\ UNCHANGED <<wires, bulbOn, msgDisplay>>
    ELSE UNCHANGED <<wires, isDrawing, currentLine, startPoint, bulbOn, msgDisplay, stepLog>>

\* dblclick on the mesh of wire i (lesson6b; part_000 has no such handler)
DblClick6(i) ==
    /\ i \in DOMAIN wires
    /\ wires' = Splice(wires, i)
    /\ LET v == checkCircuit6(wires', Page0)
       IN bulbOn' = v.bulbOn /\ msgDisplay' = v.display
    /\ stepLog' = <<HandlerCheck>>
    /\ UNCHANGED <<isDrawing, currentLine, startPoint>>

\* resetCircuit(): wires removed, bulb dark, message hidden
resetCircuit0 ==
    /\ wires' = <<>>
    /\ bulbOn' = FALSE
    /\ msgDisplay' = "none"
    /\ stepLog' = <<>>
    /\ UNCHANGED <<isDrawing, currentLine, startPoint>>

\* ========================================================= specifications
\* an event of each page leaves the globals of the other pages alone
L3(A) == page = "lesson3" /\ A /\ UNCHANGED <<page, drag, box4, boxes5, panel1, lamp>>
L4(A) == page = "lesson4" /\ A /\ UNCHANGED <<page, wiring3, boxes5, panel1, lamp>>
L5(A) == page = "lesson5" /\ A /\ UNCHANGED <<page, wiring3, switch1, box4, panel1, lamp>>
L1(A) == page = "part_001" /\ A /\ UNCHANGED <<page, wiring3, drag, box4, boxes5, msgDisplay, lamp>>

\* the readings rs[k], rs[k + 1], ... can follow one another on a clock that
\* is not set back
RECURSIVE Onward(_, _, _)
Onward(tws, rs, k) ==
    \/ k > Len(tws)
    \/ CanRead(tws[k], rs[k]) /\ Onward(Reading(tws, k, rs[k]), rs, k + 1)

\* what the callbacks of one frame can find the clock at when it is not set
\* back
Readings == {rs \in [DOMAIN tweens -> Stages] : Onward(tweens, rs, 1)}

\* what they can find when it is or has been: every other reading
SetBack == [DOMAIN tweens -> AllStages] \ Readings

\* what they find when the clock stands while the frame's callbacks run
Standing == [k \in DOMAIN tweens |-> tweens[k].elapsed]

Init3 == page = "lesson3" /\ ConstructedPage /\ Constructed3 /\ Constructed5 /\ Box4 /\ Panel1
Init4 == page = "lesson4" /\ ConstructedPage /\ Constructed4 /\ Wiring3 /\ Boxes5 /\ Panel1
Init5 == page = "lesson5" /\ ConstructedPage /\ Constructed5 /\ Constructed3 /\ Box4 /\ Panel1
Init1 == page = "part_001" /\ ConstructedPage /\ Constructed1 /\ Wiring3 /\ Constructed5 /\ Box4

\* lesson3, wiring: every wire gesture; one switch tween at a time, the
\* clock standing while a handler or a frame runs, and the next frame comes
\* when the tween has run its whole duration
Next3 ==
    \/ \E p \in PointIds : L3(MouseDownPoint(p))
    \/ \E t \in PointIds \cup {NoPoint} : L3(MouseUp(t))
    \/ \E i \in PointIds : L3(DblClick(i))
    \/ L3(tweens = <<>> /\ MouseDownSwitch("zero"))
    \/ L3(resetCircuit)
    \/ L3(Tick3(Len(tweens)))
    \/ L3(Frame3(Standing))

Spec3 == Init3 /\ [][Next3]_vars

\* lesson3, tweens: overlapping switch tweens and frames at any time;
\* wires are drawn on the empty board only
Next3T ==
    \/ \E p \in PointIds : L3(wires = <<>> /\ MouseDownPoint(p))
    \/ \E t \in PointIds \cup {NoPoint} : L3(MouseUp(t))
    \/ \E i \in PointIds : L3(DblClick(i))
    \/ \E p \in Stages : L3(TweenRoom /\ MouseDownSwitch(p))
    \/ L3(resetCircuit)
    \/ \E n \in 0..MaxPending : L3(Tick3(n))
    \/ \E rs \in Readings : L3(Frame3(rs))

Spec3T == Init3 /\ [][Next3T]_vars

\* lesson5, batteries: every battery gesture; one switch tween at a time, the
\* clock standing while a handler or a frame runs, the next frame coming when
\* the tween has run its whole duration
Next5 ==
    \/ \E b \in BatteryIds : L5(tweens = <<>> /\ MouseDown5(b))
    \/ \E near \in DropTargets : L5(MouseUp5(near))
    \/ \E c \in CircuitIds : L5(tweens = <<>> /\ ClickSwitch5(c, "zero"))
    \/ \E b \in BatteryIds : L5(ClickBattery5(b))
    \/ L5(Reset5)
    \/ L5(Tick5(Len(tweens)))
    \/ L5(Frame5(Standing))

Spec5 == Init5 /\ [][Next5]_vars

\* lesson4: every gesture, overlapping switch tweens and frames at any time,
\* on a clock that is not set back
Next4 ==
    \/ \E b \in BatteryIds4 : L4(MouseDown4(b))
    \/ \E near \in DropTargets4 : L4(MouseUp4(near))
    \/ \E p \in Stages : L4(TweenRoom /\ ClickSwitch4(p))
    \/ \E b \in BatteryIds4 : L4(ClickBattery4(b))
    \/ L4(Reset4)
    \/ \E n \in 0..MaxPending : L4(Tick4(n))
    \/ \E rs \in Readings : L4(Frame4(rs))

\* the same with the clock set back at any time: between the two readings
\* of toggleSwitch, before a frame, between the callbacks of one frame
Next4C ==
    \/ Next4
    \/ L4(TweenRoom /\ ClickSwitch4("before"))
    \/ \E rs \in SetBack : L4(Frame4(rs))

Spec4 == Init4 /\ [][Next4C]_vars

\* The three boards together. lesson3: every wire gesture, a wire being
\* drawn from its lower-numbered point (Spec3 draws them both ways), one
\* switch tween at a time and the clock as in Spec3; lesson4: as in Spec4;
\* lesson5: the gestures of Spec5 on three of the four batteries.
Next3B ==
    \/ \E p \in PointIds : L3(MouseDownPoint(p))
    \/ \E t \in PointIds \cup {NoPoint} :
          L3((t = NoPoint \/ startPoint <= t) /\ MouseUp(t))
    \/ \E i \in PointIds : L3(DblClick(i))
    \/ L3(tweens = <<>> /\ MouseDownSwitch("zero"))
    \/ L3(resetCircuit)
    \/ L3(Tick3(Len(tweens)))
    \/ L3(Frame3(Standing))

Moved5B == {1, 2, 11}

Next5B ==
    \/ \E b \in Moved5B : L5(tweens = <<>> /\ MouseDown5(b))
    \/ \E near \in DropTargets : L5(MouseUp5(near))
    \/ \E c \in CircuitIds : L5(tweens = <<>> /\ ClickSwitch5(c, "zero"))
    \/ \E b \in Moved5B : L5(ClickBattery5(b))
    \/ L5(Reset5)
    \/ L5(Tick5(Len(tweens)))
    \/ L5(Frame5(Standing))

InitB == Init3 \/ Init4 \/ Init5
NextB == Next3B \/ Next4 \/ Next5B
SpecB == InitB /\ [][NextB]_vars

\* part_000 and lesson6b: every wire gesture, up to MaxWires wires
L0(A) ==
    /\ page = "part_000" /\ A
    /\ UNCHANGED <<page, msgText, isSwitchClosed, leverRot, tweens, owed,
                   drag, box4, boxes5, panel1, lamp>>
L6(A) ==
    /\ page = "lesson6b" /\ A
    /\ UNCHANGED <<page, msgText, isSwitchClosed, leverRot, tweens, owed,
                   drag, box4, boxes5, panel1, lamp>>

Init0 == page = "part_000" /\ ConstructedPage /\ Constructed3 /\ Constructed5 /\ Box4 /\ Panel1
Init6 == page = "lesson6b" /\ ConstructedPage /\ Constructed3 /\ Constructed5 /\ Box4 /\ Panel1

Next0 ==
    \/ \E p \in PointIds0 : L0(Len(wires) < MaxWires /\ MouseDown0(p))
    \/ \E t \in PointIds0 \cup {NoPoint} : L0(MouseUp0(t))
    \/ L0(resetCircuit0)

Next6 ==
    \/ \E p \in PointIds0 : L6(Len(wires) < MaxWires /\ MouseDown0(p))
    \/ \E t \in PointIds0 \cup {NoPoint} : L6(MouseUp0(t))
    \/ \E i \in 1..MaxWires : L6(DblClick6(i))
    \/ L6(resetCircuit0)

InitW == Init0 \/ Init6
NextW == Next0 \/ Next6
SpecW == InitW /\ [][NextW]_vars

\* ============================================== bulb brightness (lesson5, lesson6)
\* turnOnBulbs / turnOffBulbs of lesson5 and turnOnBulb / turnOffBulb of the
\* battery-box script of lesson6, with the materials they write.  Intensities
\* are kept in tenths (0.6 is 6); lamp.kind is circuit.bulbMode in lesson5 and
\* circuit.type in lesson6, lamp.isBulbsOn is circuit.isBulbOn in lesson6,
\* lamp.light is the intensity of the PointLight in the group (0: none).
\* No other function of the two scripts writes any of these: checkCircuit,
\* the tween that ends and the reset button reach them by calling the four.
BulbModes5 == {"series", "parallel"}
Types6 == {"single", "double"}

\* mutant: one brightness for both bulb modes
Intensity5_Flat(bulbMode) == 15

\* const isParallel = circuit.bulbMode === 'parallel'; intensity = isParallel ? 1.5 : 0.6
Intensity5(bulbMode) == IF bulbMode = "parallel" THEN 15 ELSE 6

\* const isSingle = circuit.type === 'single'; intensity = isSingle ? 0.5 : 1.5
Intensity6(type) == IF type = "single" THEN 5 ELSE 15

turnOnBulbs5(circuit) ==
    LET intensity == Intensity5(circuit.kind)
    IN [turnOnBulbs(circuit) EXCEPT !.bulbGlow = intensity,
                                    !.filamentGlow = intensity * 2,
                                    !.light = IF @ = 0 THEN 3 * intensity ELSE @]

\* bulb.emissiveIntensity is left as it is
turnOffBulbs5(circuit) ==
    [turnOffBulbs(circuit) EXCEPT !.filamentGlow = 0, !.light = 0]

turnOnBulb6(circuit) ==
    LET intensity == Intensity6(circuit.kind)
    IN [circuit EXCEPT !.isBulbsOn = TRUE,
                       !.bulbGlow = intensity,
                       !.filamentGlow = intensity * 2,
                       !.light = IF @ = 0 THEN 5 * intensity ELSE @]

turnOffBulb6(circuit) ==
    [circuit EXCEPT !.isBulbsOn = FALSE, !.filamentGlow = 0, !.light = 0]

\* The circuit objects the functions are applied to: either kind, the flag
\* either way, and for each material every value the page gives it (1, the
\* three.js default of emissiveIntensity, included).
Circuits5 ==
    [kind : BulbModes5, isBulbsOn : BOOLEAN,
     bulbGlow : {10} \cup {Intensity5(m) : m \in BulbModes5},
     filamentGlow : {0, 10} \cup {Intensity5(m) * 2 : m \in BulbModes5},
     light : {0} \cup {3 * Intensity5(m) : m \in BulbModes5}]
Circuits6 ==
    [kind : Types6, isBulbsOn : BOOLEAN,
     bulbGlow : {10} \cup {Intensity6(t) : t \in Types6},
     filamentGlow : {0, 10} \cup {Intensity6(t) * 2 : t \in Types6},
     light : {0} \cup {5 * Intensity6(t) : t \in Types6}]

LampPages == {"lesson5 bulbs", "lesson6 bulb"}
LampInputs(pg) == IF pg = "lesson5 bulbs" THEN Circuits5 ELSE Circuits6
LampOn(pg, circuit) ==
    IF pg = "lesson5 bulbs" THEN turnOnBulbs5(circuit) ELSE turnOnBulb6(circuit)
LampOff(pg, circuit) ==
    IF pg = "lesson5 bulbs" THEN turnOffBulbs5(circuit) ELSE turnOffBulb6(circuit)

\* one call of the function on the circuit object
Called(name) == <<[by |-> name, progress |-> "full"]>>
LL(A) ==
    /\ A
    /\ UNCHANGED <<page, wiring3, switch1, msgDisplay, tweens, owed, drag, box4,
                   boxes5, panel1>>
TurnOn5 ==
    page = "lesson5 bulbs" /\ lamp' = turnOnBulbs5(lamp) /\ stepLog' = Called("turnOnBulbs")
TurnOff5 ==
    page = "lesson5 bulbs" /\ lamp' = turnOffBulbs5(lamp) /\ stepLog' = Called("turnOffBulbs")
TurnOn6 ==
    page = "lesson6 bulb" /\ lamp' = turnOnBulb6(lamp) /\ stepLog' = Called("turnOnBulb")
TurnOff6 ==
    page = "lesson6 bulb" /\ lamp' = turnOffBulb6(lamp) /\ stepLog' = Called("turnOffBulb")

InitL ==
    /\ page \in LampPages
    /\ lamp \in LampInputs(page)
    /\ msgDisplay = "none" /\ tweens = <<>> /\ stepLog = <<>> /\ owed = 0
    /\ Constructed3 /\ Constructed5 /\ Box4 /\ Panel1
NextL == LL(TurnOn5) \/ LL(TurnOff5) \/ LL(TurnOn6) \/ LL(TurnOff6)
SpecL == InitL /\ [][NextL]_vars

\* The switch tween, page by page: overlapping tweens and frames at any time,
\* with the reset button and a few of the page's other gestures.
Next3S ==
    \/ \E p \in Stages : L3(TweenRoom /\ MouseDownSwitch(p))
    \/ L3(resetCircuit)
    \/ L3(wires = <<>> /\ MouseDownPoint(1))
    \/ L3(MouseUp(3))
    \/ L3(DblClick(1))
    \/ \E n \in 0..MaxPending : L3(Tick3(n))
    \/ \E rs \in Readings : L3(Frame3(rs))

Next4S ==
    \/ \E p \in Stages : L4(TweenRoom /\ ClickSwitch4(p))
    \/ L4(Reset4)
    \/ L4(MouseDown4(1))
    \/ \E near \in {{}, {1}} : L4(MouseUp4(near))
    \/ L4(ClickBattery4(1))
    \/ \E n \in 0..MaxPending : L4(Tick4(n))
    \/ \E rs \in Readings : L4(Frame4(rs))

Next5S ==
    \/ \E c \in CircuitIds, p \in Stages : L5(TweenRoom /\ ClickSwitch5(c, p))
    \/ L5(Reset5)
    \/ \E n \in 0..MaxPending : L5(Tick5(n))
    \/ \E rs \in Readings : L5(Frame5(rs))

Next1S ==
    \/ \E hit \in {"switch", "battery", "pos"}, p \in Stages :
          L1(Room1(hit) /\ Click1(hit, p))
    \/ \E hit \in {"none", "switch"}, p \in Stages : L1(Room1(hit) /\ CloseClick1(hit, p))
    \/ L1(BounceBack1("battery"))
    \/ \E n \in 0..MaxPending : L1(Tick1(n))
    \/ \E rs \in Readings : L1(Frame1(rs))

\* the switch tween on every page that has one
InitS == Init3 \/ Init4 \/ Init5 \/ Init1
NextS == Next3S \/ Next4S \/ Next5S \/ Next1S
SpecS == InitS /\ [][NextS]_vars

\* the browser keeps the clock running and keeps delivering animation frames
ClockRuns ==
    \/ L3(Tick3(Len(tweens)))
    \/ L4(Tick4(Len(tweens)))
    \/ L5(Tick5(Len(tweens)))
    \/ L1(Tick1(Len(tweens)))
FrameRuns ==
    \E rs \in Readings :
        L3(Frame3(rs)) \/ L4(Frame4(rs)) \/ L5(Frame5(rs)) \/ L1(Frame1(rs))
SpecSF == SpecS /\ WF_vars(ClockRuns) /\ WF_vars(FrameRuns)

\* The switch tween with a circuit that can be completed. lesson3: the
\* wires battery-pos to bulb-1, bulb-2 to switch-rear and switch-front to
\* battery-neg, drawn one after the other and removed in any order;
\* lesson4: as in Spec4; lesson5: the batteries of the
\* series circuit and its box, the switch of the series circuit. Tweens
\* overlap, frames come at any time.
Loop3 == <<<<1, 3>>, <<4, 5>>, <<6, 2>>>>
Moved5E == {1, 2}
DropTargets5E == {{}, {<<0, 1>>}, {<<0, 2>>}}

Next3E ==
    \/ \E k \in DOMAIN Loop3 : L3(Len(wires) = k - 1 /\ MouseDownPoint(Loop3[k][1]))
    \/ \E k \in DOMAIN Loop3 : L3(startPoint = Loop3[k][1] /\ MouseUp(Loop3[k][2]))
    \/ L3(MouseUp(NoPoint))
    \/ \E i \in DOMAIN Loop3 : L3(DblClick(i))
    \/ \E p \in Stages : L3(TweenRoom /\ MouseDownSwitch(p))
    \/ L3(resetCircuit)
    \/ \E n \in 0..MaxPending : L3(Tick3(n))
    \/ \E rs \in Readings : L3(Frame3(rs))

Next5E ==
    \/ \E b \in Moved5E : L5(MouseDown5(b))
    \/ \E near \in DropTargets5E : L5(MouseUp5(near))
    \/ \E p \in Stages : L5(TweenRoom /\ ClickSwitch5(0, p))
    \/ \E b \in Moved5E : L5(ClickBattery5(b))
    \/ L5(Reset5)
    \/ \E n \in 0..MaxPending : L5(Tick5(n))
    \/ \E rs \in Readings : L5(Frame5(rs))

InitE == Init3 \/ Init4 \/ Init5
NextE == Next3E \/ Next4 \/ Next5E
SpecE == InitE /\ [][NextE]_vars
SpecEF == SpecE /\ WF_vars(ClockRuns) /\ WF_vars(FrameRuns)

\* ====================================================== lesson3: claims
\* Reference reading of the circuit, independent of the BFS: the terminals,
\* the edges as unordered pairs, and the simple paths from battery-pos to
\* battery-neg.
Nodes3 == {NodeName(ConnectionPoints[p]) : p \in PointIds}
Filament == {<<"bulb", "1">>, <<"bulb", "2">>}
Blade == {<<"switch", "front">>, <<"switch", "rear">>}
WireEdges(ws) == {{NodeName(ws[i].start), NodeName(ws[i].end)} : i \in DOMAIN ws}
Edges(ws, closed) ==
    WireEdges(ws) \cup {Filament} \cup (IF closed THEN {Blade} ELSE {})

\* every sequence of distinct terminals that starts at battery-pos and ends
\* at battery-neg
InnerNodes3 == Nodes3 \ {startNode, endNode}
SimplePaths ==
    {<<startNode>> \o m \o <<endNode>> :
        m \in {x \in UNION {[1..n -> InnerNodes3] : n \in 0..Cardinality(InnerNodes3)} :
                  \A a, b \in DOMAIN x : a # b => x[a] # x[b]}}

Traverses(s, e) == \E k \in 1..(Len(s) - 1) : {s[k], s[k + 1]} = e
OnNode(s, par) == \E k \in DOMAIN s : s[k][1] = par

\* the battery-pos to battery-neg paths of the present circuit
CircuitPaths(ws, closed) ==
    LET E == Edges(ws, closed)
    IN {s \in SimplePaths : \A k \in 1..(Len(s) - 1) : {s[k], s[k + 1]} \in E}

\* those that go through the filament
EnergizingPaths(ws, closed) == {s \in CircuitPaths(ws, closed) : Traverses(s, Filament)}

\* the last step ended in a checkCircuit call, so the page shows its verdict
Checked == \E k \in DOMAIN stepLog : stepLog[k].by \in {"handler", "tween"}

\* C1: after checkCircuit, the bulb is lit iff some path from battery-pos to
\* battery-neg over the wires, the filament and the closed switch traverses
\* the filament edge.
C1_LitIffFilamentPath ==
    (page = "lesson3" /\ Checked) =>
        (bulbOn <=> EnergizingPaths(wires, isSwitchClosed) # {})

C1_Witness ==
    /\ page = "lesson3" /\ Checked /\ bulbOn
    /\ Len(wires) = 3 /\ isSwitchClosed
    /\ \E s \in EnergizingPaths(wires, isSwitchClosed) : Traverses(s, Blade)

\* C2: when every complete circuit through the bulb passes through the
\* switch, checkCircuit leaves the bulb off with the switch open and lights
\* it with the switch closed, the wires being equal.
SwitchGated(ws) ==
    /\ EnergizingPaths(ws, TRUE) # {}
    /\ \A s \in EnergizingPaths(ws, TRUE) : Traverses(s, Blade)

C2_SwitchGating ==
    (page = "lesson3" /\ SwitchGated(wires)) =>
        /\ ~checkCircuit(wires, FALSE, Page3).bulbOn
        /\ checkCircuit(wires, TRUE, Page3).bulbOn
        /\ (Checked => (bulbOn <=> isSwitchClosed))

C2_Witness ==
    /\ page = "lesson3" /\ SwitchGated(wires) /\ Checked
    /\ ~isSwitchClosed /\ ~bulbOn /\ tweens = <<>>

\* C3: every connection point is the endpoint of at most one wire.
EndsAt(p) ==
    {<<i, side>> \in (DOMAIN wires) \X {"start", "end"} :
        (IF side = "start" THEN wires[i].start ELSE wires[i].end) = ConnectionPoints[p]}

C3_OneWirePerPoint ==
    page = "lesson3" => \A p \in PointIds : Cardinality(EndsAt(p)) <= 1

C3_Witness ==
    /\ page = "lesson3"
    /\ \A p \in PointIds : Cardinality(EndsAt(p)) = 1

\* C4 (as claimed): a rejected wire gesture (mousedown on an occupied point;
\* mouseup on an occupied point, on the start point or on no point) leaves
\* wires, switch and bulb/message as they were and ends with isDrawing false
\* and currentLine, startPoint null. A step whose log is the rejection mark
\* and that is not a clock tick is the handler rejecting the gesture.
FrameOfRejection == UNCHANGED <<wires, isSwitchClosed, bulbOn, msgDisplay, msgText>>
Idle3 == ~isDrawing /\ currentLine = FALSE /\ startPoint = NoPoint

C4_NoDrawingStateLeft ==
    [][ (stepLog' = <<Rejection>> /\ UNCHANGED tweens) =>
            FrameOfRejection /\ Idle3'
      ]_vars

\* C4: a rejected wire gesture leaves wires, switch and bulb/message as they
\* were; the rejected mouseup ends with isDrawing false and currentLine,
\* startPoint null; the rejected mousedown returns before it writes
\* anything, so isDrawing, currentLine and startPoint are as they were: null
\* when no wire was being drawn, and still those of the drag when the
\* mousedown came while one was.
C4_RejectedGesture ==
    [][ (stepLog' = <<Rejection>> /\ UNCHANGED tweens) =>
            /\ FrameOfRejection
            /\ (isDrawing /\ ~isDrawing') => Idle3'
            /\ (isDrawing' = isDrawing) => UNCHANGED <<currentLine, startPoint>>
            /\ Idle3 => Idle3'
      ]_vars

\* a gesture has just been rejected with wires on the board and the bulb lit
C4_Witness ==
    /\ page = "lesson3" /\ Len(wires) = 2 /\ bulbOn /\ Idle3
    /\ stepLog = <<Rejection>> /\ msgDisplay = "block"

\* C5 (as claimed): no wire joins two points of the same component.
C5_NoSameComponentWire ==
    page = "lesson3" => \A i \in DOMAIN wires : wires[i].start.parent # wires[i].end.parent

\* C6 (as claimed): on a short circuit checkCircuit leaves the bulb off and
\* the page differs from the page it leaves on an open circuit.
ShortCircuit(ws, closed) ==
    \E s \in CircuitPaths(ws, closed) : ~OnNode(s, "bulb")

ShownPage(v) == <<v.bulbOn, v.display, v.text>>

C6_ShortCircuitReported ==
    (page = "lesson3" /\ Checked /\ ShortCircuit(wires, isSwitchClosed)) =>
        /\ ~bulbOn
        /\ ShownPage(Page3) # ShownPage(checkCircuit(<<>>, isSwitchClosed, Page3))

\* C7: when checkCircuit lights the bulb, the message is the 'controlled by
\* the switch' one iff the energizing path traverses the switch edge (the
\* switch then being closed), and the 'switch not used' one otherwise.
C7_SwitchMessage ==
    (page = "lesson3" /\ Checked /\ bulbOn) =>
        LET viaSwitch == \E s \in EnergizingPaths(wires, isSwitchClosed) : Traverses(s, Blade)
        IN /\ msgDisplay = "block"
           /\ (msgText = MsgSwitch <=> viaSwitch)
           /\ (msgText = MsgNoSwitch <=> ~viaSwitch)
           /\ (viaSwitch => isSwitchClosed)

\* lit by a circuit that leaves the closed switch aside
C7_Witness ==
    /\ page = "lesson3" /\ Checked /\ bulbOn /\ isSwitchClosed
    /\ msgText = MsgNoSwitch /\ Len(wires) = 3

\* ====================================================== lesson5: claims
\* battery b sits in slot s of the box of circuit c
SitsIn(b, c, s) ==
    /\ allBatteries[b].parentBox = c
    /\ allBatteries[b].inSlot = <<c, s>>

\* the way battery b points along the box's x axis
Facing(b) == IF allBatteries[b].rotationY % 2 = 0 THEN 1 ELSE -1

\* every slot of the box of circuit c holds a battery that points the way the
\* slot expects
SlotsFilled(c) ==
    \A s \in SlotIds : \E b \in BatteryIds : SitsIn(b, c, s) /\ Facing(b) = ExpectedDirX(s)

\* the circuits checkCircuit has just been called for
Checked5 == {stepLog[k].circuit : k \in {j \in DOMAIN stepLog : stepLog[j].by \in {"handler", "tween"}}}

\* C8: in lesson5, after checkCircuit(circuit) the circuit's isBulbsOn is true
\* exactly when every slot of the circuit's box is occupied by a battery with
\* matching orientation and the circuit's isSwitchClosed is true.
C8_BulbsOnIffBoxFilledAndClosed ==
    page = "lesson5" =>
        \A c \in Checked5 :
            circuits[c].isBulbsOn <=> (SlotsFilled(c) /\ circuits[c].isSwitchClosed)

\* the tween of the parallel circuit's switch has just lit its bulbs, a battery
\* of the series circuit sitting in the parallel box; the series box is filled
\* too and its bulbs have just been found dark
C8_Witness ==
    /\ page = "lesson5"
    /\ \E k \in DOMAIN stepLog : stepLog[k].by = "tween" /\ stepLog[k].circuit = 1
    /\ circuits[1].isBulbsOn
    /\ \E s \in SlotIds : SitsIn(1, 1, s)
    /\ \A s \in SlotIds : circuits[0].slots[s].occupied
    /\ ~circuits[0].isBulbsOn

\* ================================================== switch tween: claims
\* the checkCircuit calls the animateSwitch calls of the last step made
TweenChecks == {k \in DOMAIN stepLog : stepLog[k].by = "tween"}

\* every toggleSwitch call whose tween has not called checkCircuit yet has
\* exactly one callback pending, and each call a tween makes is made at
\* progress 1
TweenAccounts ==
    /\ owed = Len(tweens)
    /\ \A k \in TweenChecks : stepLog[k].progress = "full"

\* C9 (as claimed): on lesson3, lesson4, lesson5 and part_001, every
\* toggleSwitch call (the switch click) results in exactly one checkCircuit
\* call (updateCircuitState on part_001), made on the animation frame where
\* the tween's progress reaches 1 and on no earlier frame of the tween.
C9_CheckOnFrame ==
    /\ [](TweenAccounts /\ \A k \in TweenChecks : stepLog[k].call = "frame")
    /\ (tweens # <<>>) ~> (TweenChecks # {})

\* C9 (amended): every toggleSwitch call results in exactly one checkCircuit
\* call (updateCircuitState on part_001), made by the animateSwitch call of
\* its tween that finds progress 1 and by no earlier one: a tween calls it at
\* progress 1 only, leaves the pending callbacks when it does, and with the
\* clock running and frames delivered some pending tween gets there. The
\* call that finds progress 1 is that of an animation frame or, when the
\* clock has moved by the whole duration between the two readings of
\* toggleSwitch, the call toggleSwitch itself makes.
C9_OneCheckPerToggle ==
    /\ [](TweenAccounts)
    /\ (tweens # <<>>) ~> (TweenChecks # {})

\* on part_001 a frame has just let one of two overlapping tweens make its
\* call, the other is still pending
C9_Witness ==
    /\ page = "part_001"
    /\ TweenChecks # {} /\ \A k \in TweenChecks : stepLog[k].call = "frame"
    /\ Len(tweens) = 1
    /\ owed = 1
    /\ bulbOn = isSwitchClosed

\* the pending animateSwitch callbacks that drive the lever of switch sw (the
\* circuit id on lesson5; the pages with one switch have switch 0)
ChainsOf(sw) ==
    {k \in DOMAIN tweens : IF page = "lesson5" THEN tweens[k].circuit = sw ELSE sw = 0}

\* C10: on lesson3, lesson4 and lesson5 at most one animateSwitch callback
\* chain is pending per switch at any time (a toggleSwitch issued while a
\* tween of the same switch is in flight would cancel that tween's callback).
C10_OneChainPerSwitch ==
    page \in {"lesson3", "lesson4", "lesson5"} =>
        \A sw \in CircuitIds : Cardinality(ChainsOf(sw)) <= 1

\* a switch tween is in flight: some animateSwitch chain has been started and
\* has not reached progress 1
InFlight == \E k \in DOMAIN tweens : tweens[k].elapsed # "full"

\* C11 (as claimed): on lesson3, lesson4 and lesson5 checkCircuit is never
\* executed while a switch tween is in flight. (The log of the last checks
\* stays while the clock advances, and the clock only moves a tween towards
\* progress 1, so a tween in flight now was in flight when the checks ran.)
C11_NoCheckMidTween ==
    (page \in {"lesson3", "lesson4", "lesson5"} /\ Checked) => ~InFlight

\* the logical state of the page's scene as its script constructs it: no
\* user wire, every switch open, every slot free, every battery in no slot
\* and turned to rotation 0, every bulb off
SceneInitial ==
    /\ page = "lesson3" => wires = <<>> /\ ~isSwitchClosed /\ ~bulbOn
    /\ page = "lesson4" =>
          /\ ~isSwitchClosed /\ ~bulbOn
          /\ \A s \in SlotIds4 : ~batteryBox[s].occupied
          /\ \A b \in BatteryIds4 :
                batteries[b].inSlot = NoSlotId /\ batteries[b].rotationY = 0
    /\ page = "lesson5" =>
          /\ \A c \in CircuitIds :
                /\ ~circuits[c].isSwitchClosed /\ ~circuits[c].isBulbsOn
                /\ \A s \in SlotIds : ~circuits[c].slots[s].occupied
          /\ \A b \in BatteryIds :
                /\ allBatteries[b].inSlot = NoSlot
                /\ allBatteries[b].parentBox = NoBox
                /\ allBatteries[b].rotationY = 0

\* a call of the page's reset handler
ResetReturns == L3(resetCircuit) \/ L4(Reset4) \/ L5(Reset5)

\* C12 (as claimed): when the reset handler of lesson3, lesson4 or lesson5
\* returns, whatever state it was called in, the logical state is the
\* scene's initial state.
C12_ResetRestoresScene == [][ResetReturns => SceneInitial']_vars

\* ============================================= checkCircuit: claims
\* what one checkCircuit call leaves on the page, called in the current state
Once3 == checkCircuit(wires, isSwitchClosed, Page3)
Once4 == checkCircuit4(batteryBox, batteries, isSwitchClosed, Page4)
Once5(c) == checkCircuit5(Page5, allBatteries, c)

\* C13: called a second time with the wires, the switch, the slots and the
\* batteries as they are, checkCircuit leaves the bulb state and the message
\* state that its first call left (lesson3, lesson4, lesson5), in every
\* reachable state, those where the first call changes what is displayed
\* included.
C13_CheckTwiceIsCheckOnce ==
    /\ page = "lesson3" =>
          ShownPage(checkCircuit(wires, isSwitchClosed, Once3)) = ShownPage(Once3)
    /\ page = "lesson4" =>
          checkCircuit4(batteryBox, batteries, isSwitchClosed, Once4) = Once4
    /\ page = "lesson5" =>
          \A c \in CircuitIds : checkCircuit5(Once5(c), allBatteries, c) = Once5(c)

\* a tween is flipping the lesson3 switch shut and the call that will end it
\* lights the dark bulb
C13_Witness ==
    /\ page = "lesson3" /\ tweens # <<>> /\ ~bulbOn
    /\ Once3.bulbOn /\ Once3.text = MsgSwitch

\* the wires array as it would be had the same wires been added in another
\* order
Reorderings(ws) ==
    {[k \in DOMAIN ws |-> ws[f[k]]] :
        f \in {g \in [DOMAIN ws -> DOMAIN ws] : \A i, j \in DOMAIN ws : g[i] = g[j] => i = j}}

\* C14: in lesson3 the bulb state and the message checkCircuit chooses are
\* the same for every order in which the present wires could have been added,
\* for either switch state; after a checkCircuit call the page shows that
\* verdict.
C14_VerdictIgnoresWireOrder ==
    page = "lesson3" =>
        /\ \A o \in Reorderings(wires) : \A closed \in BOOLEAN :
              ShownPage(checkCircuit(o, closed, Page3))
                  = ShownPage(checkCircuit(wires, closed, Page3))
        /\ Checked =>
              \A o \in Reorderings(wires) :
                  ShownPage(Page3) = ShownPage(checkCircuit(o, isSwitchClosed, Page3))

\* the bulb has just been lit through the switch by three wires of which the
\* one at battery-pos was drawn last
C14_Witness ==
    /\ page = "lesson3" /\ Checked /\ bulbOn /\ msgText = MsgSwitch
    /\ Len(wires) = 3
    /\ startNode \in {NodeName(wires[3].start), NodeName(wires[3].end)}

\* the step is an animation frame on which a tween ended, its callback
\* setting the lever and calling checkCircuit (nothing else shortens the
\* pending callbacks)
TweenEnds == Len(tweens') < Len(tweens)

\* what checkCircuit reads on lesson5, circuit by circuit
Inputs5(cs) ==
    [c \in CircuitIds |-> [isSwitchClosed |-> cs[c].isSwitchClosed, slots |-> cs[c].slots]]

\* C15: checkCircuit changes only the displayed verdict. The frame on which a
\* tween ends, which sets the lever and calls checkCircuit, leaves the wires,
\* isSwitchClosed, every slot's occupied flag and every battery's inSlot /
\* parentBox / rotation as they were (lesson3, lesson4, lesson5), and in any
\* state a checkCircuit(circuit) call of lesson5 hands back the circuits with
\* their switches and slots as it found them.
C15_CheckChangesDisplayOnly ==
    /\ [](page = "lesson5" =>
            \A c \in CircuitIds : Inputs5(Once5(c).circuits) = Inputs5(circuits))
    /\ [][(page \in {"lesson3", "lesson4", "lesson5"} /\ TweenEnds) =>
            /\ UNCHANGED <<wires, isSwitchClosed, batteries, batteryBox, allBatteries>>
            /\ Inputs5(circuits') = Inputs5(circuits)]_vars

\* the checkCircuit call of a lesson4 tween has just lit the bulb, both
\* batteries sitting in the box, the first one turned round
C15_Witness ==
    /\ page = "lesson4" /\ TweenChecks # {} /\ bulbOn /\ msgDisplay = "block"
    /\ \A s \in SlotIds4 : batteryBox[s].occupied
    /\ \E b \in BatteryIds4 : batteries[b].rotationY # 0

\* ================================================== lesson5: two circuits
\* the circuits a step's toggleSwitch or ending tween is about
Touched ==
    IF Len(tweens') > Len(tweens) THEN {tweens'[Len(tweens')].circuit}
    ELSE {stepLog'[k].circuit : k \in {j \in DOMAIN stepLog' : stepLog'[j].by = "tween"}}

\* a circuit's logical state
Own5(circ) ==
    [isSwitchClosed |-> circ.isSwitchClosed, slots |-> circ.slots, isBulbsOn |-> circ.isBulbsOn]

\* other states the circuits other than c and the batteries outside c's box
\* could be in
Elsewhere(c) ==
    {[cs |-> [d \in CircuitIds |->
                 IF d = c THEN circuits[d]
                 ELSE [circuits[d] EXCEPT !.isSwitchClosed = closed, !.isBulbsOn = on,
                          !.slots = [s \in SlotIds |-> [occupied |-> occ]]]],
      bats |-> [b \in BatteryIds |->
                 IF allBatteries[b].parentBox = c THEN allBatteries[b]
                 ELSE [allBatteries[b] EXCEPT !.rotationY = (@ + turn) % 2]]] :
        closed \in BOOLEAN, on \in BOOLEAN, occ \in BOOLEAN, turn \in {0, 1}}

\* C16: in lesson5, toggleSwitch(circuit) and the checkCircuit(circuit) its
\* tween ends with leave every other circuit's isSwitchClosed, slot flags and
\* isBulbsOn as they were, and the isBulbsOn a checkCircuit(circuit) call
\* leaves is the same whatever the other circuit's switch, slots and bulbs and
\* the batteries outside the circuit's box are.
C16_CircuitsIndependent ==
    /\ [](page = "lesson5" =>
            \A c \in CircuitIds : \A e \in Elsewhere(c) :
                checkCircuit5([circuits |-> e.cs, display |-> msgDisplay], e.bats, c).circuits[c].isBulbsOn
                    = Once5(c).circuits[c].isBulbsOn)
    /\ [][(page = "lesson5" /\ Len(tweens') # Len(tweens)) =>
            \A d \in CircuitIds \ Touched : Own5(circuits'[d]) = Own5(circuits[d])]_vars

\* the tween of the parallel circuit's switch has just ended with its bulbs
\* found dark, while the bulbs of the series circuit are lit
C16_Witness ==
    /\ page = "lesson5"
    /\ \E k \in DOMAIN stepLog : stepLog[k].by = "tween" /\ stepLog[k].circuit = 1
    /\ circuits[1].isSwitchClosed /\ ~circuits[1].isBulbsOn
    /\ circuits[0].isSwitchClosed /\ circuits[0].isBulbsOn

\* ================================================== lesson3: the switch
\* how many times v stands in u's adjacency list
EdgeCount(adj, u, v) ==
    IF u \in DOMAIN adj THEN Cardinality({k \in DOMAIN adj[u] : adj[u][k] = v}) ELSE 0

\* the edge checkCircuit adds for the closed switch is in the graph (beside
\* what the wires put there)
BladeInGraph(ws, closed) ==
    EdgeCount(BuildGraph(ws, closed), <<"switch", "front">>, <<"switch", "rear">>)
        = EdgeCount(AddWires(EmptyMap, ws, 1), <<"switch", "front">>, <<"switch", "rear">>) + 1

\* C17: in lesson3 isSwitchClosed is always one of open (false) and closed
\* (true); a step changes it only if it is a toggleSwitch call, which flips
\* it, or a resetCircuit call, which sets it to false (wire drawing, wire
\* completion, wire removal, the clock and the frames with their checkCircuit
\* calls leave it unchanged); and the switch's own edge is in checkCircuit's
\* graph exactly when isSwitchClosed is true.
C17_SwitchStateFrame ==
    /\ [](page = "lesson3" =>
            /\ isSwitchClosed \in BOOLEAN
            /\ BladeInGraph(wires, isSwitchClosed) <=> isSwitchClosed)
    /\ [][page = "lesson3" =>
            /\ (\E p \in Stages : L3(MouseDownSwitch(p))) => isSwitchClosed' = ~isSwitchClosed
            /\ L3(resetCircuit) => isSwitchClosed' = FALSE
            /\ isSwitchClosed' # isSwitchClosed =>
                  (\E p \in Stages : L3(MouseDownSwitch(p))) \/ L3(resetCircuit)]_vars

\* the closed switch has just been opened by resetCircuit while its tween was
\* pending
C17_Witness ==
    /\ page = "lesson3" /\ ~isSwitchClosed /\ wires = <<>>
    /\ stepLog = <<HandlerCheck>>
    /\ \E k \in DOMAIN tweens : tweens[k].targetRot = LeverClosed

\* ============================================== the display is up to date
\* the step changes the wires, a slot's occupied flag or a battery's
\* orientation
InputsChange ==
    \/ page = "lesson3" /\ wires' # wires
    \/ page = "lesson4" /\
          \/ batteryBox' # batteryBox
          \/ \E b \in BatteryIds4 : batteries'[b].rotationY # batteries[b].rotationY
    \/ page = "lesson5" /\
          \/ \E c \in CircuitIds : circuits'[c].slots # circuits[c].slots
          \/ \E b \in BatteryIds : allBatteries'[b].rotationY # allBatteries[b].rotationY

\* the step's handler called checkCircuit before it returned
HandlerChecked == \E k \in DOMAIN stepLog' : stepLog'[k].by = "handler"

\* the bulbs are as a checkCircuit call now would leave them
BulbsFresh ==
    /\ page = "lesson3" => bulbOn = Once3.bulbOn
    /\ page = "lesson4" => bulbOn = Once4.bulbOn
    /\ page = "lesson5" =>
          \A c \in CircuitIds : circuits[c].isBulbsOn = Once5(c).circuits[c].isBulbsOn

\* C18 (as claimed): every handler of lesson3, lesson4 and lesson5 that
\* changes the wires, a slot's occupancy or a battery's orientation calls
\* checkCircuit before it returns.
C18_EveryHandlerChecks == [][InputsChange => HandlerChecked]_vars

\* C18 (amended): every such handler calls checkCircuit before it returns,
\* except the reset handler of lesson5, which frees every slot and turns the
\* bulbs of every circuit off itself; at every event boundary at which no
\* switch tween is pending the displayed bulb state is what checkCircuit
\* computes from the current wires, slots, battery orientations and switch
\* state.
C18_DisplayFresh ==
    /\ [](tweens = <<>> => BulbsFresh)
    /\ [][InputsChange => HandlerChecked \/ L5(Reset5)]_vars

\* no tween is pending and a battery gesture of lesson4 has just ended in a
\* checkCircuit call that found the bulb lit
C18_Witness ==
    /\ page = "lesson4" /\ tweens = <<>> /\ stepLog = <<HandlerCheck>>
    /\ isSwitchClosed /\ bulbOn

\* ============================================ lesson3: checkCircuit ends
\* the BFS of checkCircuit on the graph of the wires ws and the switch
Search3(ws, closed) ==
    BfsLoop(BuildGraph(ws, closed),
            [queue |-> <<startNode>>, visited |-> {startNode}, parent |-> EmptyMap])

\* the wiring leaves a battery pole out of the graph
PoleUnwired(ws, closed) ==
    LET adj == BuildGraph(ws, closed)
    IN startNode \notin DOMAIN adj \/ endNode \notin DOMAIN adj

\* C19: in lesson3, for the wires array of every reachable state and either
\* switch state, checkCircuit ends without an error; with no wire, or with a
\* battery pole left unwired, it turns the bulb off; its BFS loop takes each
\* node from the queue at most once, and when the BFS has found battery-neg
\* the walk back along the parents arrives at battery-pos.
C19_CheckCircuitEnds ==
    page = "lesson3" =>
        \A closed \in BOOLEAN :
            LET v == checkCircuit(wires, closed, Page3)
                r == Search3(wires, closed)
            IN /\ ~v.error
               /\ PoleUnwired(wires, closed) => v = turnOffBulb(Page3)
               /\ ~PoleUnwired(wires, closed) =>
                     /\ \A i, j \in DOMAIN r.order : r.order[i] = r.order[j] => i = j
                     /\ Len(r.order) <= Cardinality(DOMAIN BuildGraph(wires, closed))
                     /\ r.found =>
                           ~WalkBack(endNode, r.parent,
                                [hasBulb |-> FALSE, hasSwitch |-> FALSE, error |-> FALSE]).error

\* three wires close the circuit through the closed switch: the BFS has
\* taken all six nodes from its queue and the bulb has just been lit
C19_Witness ==
    /\ page = "lesson3" /\ Checked /\ bulbOn /\ isSwitchClosed
    /\ Len(Search3(wires, isSwitchClosed).order) = 6

\* =================================== part_000 and lesson6b: claims
\* battery-pos and battery-neg are wired to the two different points of the
\* bulb, so that the current passes through the filament
AcrossFilament(ws) ==
    \E i, j \in DOMAIN ws : \E a, b \in {"1", "2"} :
        /\ a # b
        /\ LET joins(w, pole, id) ==
                   \/ w.start.parent = "battery" /\ w.start.pole = pole
                        /\ w.end.parent = "bulb" /\ w.end.id = id
                   \/ w.end.parent = "battery" /\ w.end.pole = pole
                        /\ w.start.parent = "bulb" /\ w.start.id = id
           IN joins(ws[i], "pos", a) /\ joins(ws[j], "neg", b)

\* C20 (as claimed): in part_000 and in the second script of lesson6 the
\* bulb is lit only when battery-pos and battery-neg are wired to the bulb's
\* two different terminals; two wires ending on the same bulb point never
\* light it.
C20_LitOnlyAcrossFilament ==
    (page \in {"part_000", "lesson6b"} /\ bulbOn) => AcrossFilament(wires)

\* ===================================== lesson3: a wire added and removed
\* the points a mouseup would now complete the half-drawn wire on
Completions ==
    IF isDrawing /\ startPoint # NoPoint
    THEN {t \in PointIds : t # startPoint /\ ~isPointOccupied(ConnectionPoints[t])}
    ELSE {}

\* the wires array after mouseup on t, and the page its checkCircuit leaves
Added(t) ==
    LET ws == Append(wires, [start |-> ConnectionPoints[startPoint],
                             end |-> ConnectionPoints[t]])
    IN [wires |-> ws, page |-> checkCircuit(ws, isSwitchClosed, Page3)]

\* the wires array after a dblclick on that new wire, and the page its
\* checkCircuit leaves
AddedThenRemoved(t) ==
    LET a == Added(t)
        ws == Splice(a.wires, Len(a.wires))
    IN [wires |-> ws, page |-> checkCircuit(ws, isSwitchClosed, a.page)]

\* C21: in lesson3, with no switch tween in flight, completing the wire being
\* drawn on any free point and then double-clicking that wire leaves the
\* wires, the bulb state and the message visibility as they were before the
\* mouseup, and both endpoints free for a new wire.
C21_AddThenRemoveWire ==
    (page = "lesson3" /\ tweens = <<>>) =>
        \A t \in Completions :
            LET r == AddedThenRemoved(t)
            IN /\ r.wires = wires
               /\ r.page.bulbOn = bulbOn
               /\ r.page.display = msgDisplay
               /\ ~r.page.error
               /\ ~isPointOccupied(ConnectionPoints[startPoint])
               /\ ~isPointOccupied(ConnectionPoints[t])

\* the third wire is being drawn with the switch closed; completing it lights
\* the bulb, which removing it darkens again
C21_Witness ==
    /\ page = "lesson3" /\ tweens = <<>> /\ Len(wires) = 2 /\ isSwitchClosed /\ ~bulbOn
    /\ \E t \in Completions :
          Added(t).page.bulbOn /\ ~AddedThenRemoved(t).page.bulbOn

\* ============================================ lesson5: the success message
\* C22: in lesson5 the success message is visible exactly when some circuit
\* has isBulbsOn true: after every checkCircuit call, after reset, and in
\* every other reachable state too (no other handler touches either).
C22_MessageIffAnyBulbsOn ==
    page = "lesson5" =>
        (msgDisplay = "block" <=> \E c \in CircuitIds : circuits[c].isBulbsOn)

\* a handler has just checked both circuits: the series circuit is lit, the
\* parallel one, checked after it, is dark, and the message is visible
C22_Witness ==
    /\ page = "lesson5" /\ stepLog = HandlerChecksAll5
    /\ circuits[0].isBulbsOn /\ ~circuits[1].isBulbsOn
    /\ msgDisplay = "block"

\* ------------------------------------------------------------------- C23
\* the kind of circuit that gets the lower tier on each page
DimKind(pg) == IF pg = "lesson5 bulbs" THEN "series" ELSE "single"

\* C23: turning a bulb on gives the series circuit (lesson5) and the
\* single-battery circuit (lesson6) a strictly lower emissive intensity than
\* the parallel circuit and the double-battery circuit, and the intensity
\* written depends on the circuit's bulbMode / type alone: two circuit
\* objects of one kind get the same intensity whatever else they hold, and a
\* bulb just turned on has the intensity of its kind.
C23_IntensityTiers ==
    page \in LampPages =>
        /\ \A d \in LampInputs(page) :
              LET a == LampOn(page, lamp)
                  b == LampOn(page, d)
              IN /\ d.kind = lamp.kind =>
                        a.bulbGlow = b.bulbGlow /\ a.filamentGlow = b.filamentGlow
                 /\ lamp.kind = DimKind(page) /\ d.kind # DimKind(page) =>
                        a.bulbGlow < b.bulbGlow
        /\ stepLog \in {Called("turnOnBulbs"), Called("turnOnBulb")} =>
              /\ lamp.isBulbsOn
              /\ lamp.bulbGlow = LampOn(page, NewCircuit(lamp.kind)).bulbGlow

\* a series circuit of lesson5 just turned on: its flag, its materials and
\* its light as turnOnBulbs leaves them
C23_Witness ==
    /\ page = "lesson5 bulbs" /\ stepLog = Called("turnOnBulbs")
    /\ lamp.kind = "series" /\ lamp.isBulbsOn /\ lamp.bulbGlow = Intensity5("series")
    /\ lamp.light = 3 * Intensity5("series")
    /\ lamp.filamentGlow = 2 * Intensity5("series")

\* ------------------------------------------------------------------- C24
\* some toggleSwitch call has not had its checkCircuit call yet
TogglePending == owed > 0
\* the frame just delivered ended a tween, which called checkCircuit at
\* progress 1
ToggleChecked == \E k \in TweenChecks : stepLog[k].progress = "full"
\* no tween is left, so nothing more happens unless the user acts
Settled == page \in {"lesson3", "lesson4", "lesson5"} /\ tweens = <<>>

\* C24: on lesson3, lesson4 and lesson5, with the clock running and frames
\* delivered, every toggleSwitch call is eventually followed by a checkCircuit
\* call of its tween, and whenever no tween is left the bulbs are as
\* checkCircuit finds them with the switch, the wires and the batteries as
\* they are, toggles issued while a tween is in flight included.
C24_ToggleSettles ==
    /\ [](Settled => BulbsFresh /\ owed = 0)
    /\ TogglePending ~> ToggleChecked

\* lesson3, the loop wired and the bulb lit: the switch was opened and closed
\* again before the first tween ended; the older tween has just called
\* checkCircuit, which found the switch closed, the younger is still pending
C24_Witness ==
    /\ page = "lesson3" /\ Len(wires) = 3
    /\ ToggleChecked /\ Len(tweens) = 1 /\ owed = 1
    /\ isSwitchClosed /\ bulbOn

\* ------------------------------------------------------------------- C25
\* the lever of a switch shows the state: at the closed angle when the switch
\* is closed, at the page's open angle when it is open
LeverShows(closed, rot, open) == rot = (IF closed THEN LeverClosed ELSE open)

\* C25 (as claimed): on lesson3 and lesson5, whenever no switch tween is
\* pending, the lever of every switch is at the closed angle 0 if its
\* isSwitchClosed is true and at the open angle (PI/4, PI/3) otherwise, the
\* reset button having been pressed during a tween or not.
C25_LeverAgrees ==
    tweens = <<>> =>
        /\ page = "lesson3" => LeverShows(isSwitchClosed, leverRot, LeverOpen3)
        /\ page = "lesson5" =>
              \A c \in CircuitIds :
                  LeverShows(circuits[c].isSwitchClosed, circuits[c].leverRot, LeverOpen5)

\* ------------------------------------------------------------------- C26
\* slot s of the lesson4 box holds a battery whose tip points to the box's
\* -X (tip = -1) or +X (tip = 1)
Holds4(s, tip) ==
    \E b \in BatteryIds4 :
        /\ batteries[b].inSlot = s
        /\ IF tip < 0 THEN Dot10(batteries[b]) < -8 ELSE Dot10(batteries[b]) > 8

\* checkCircuit returns early: both slots flagged occupied, no battery found
\* for one of them
EarlyReturn4 ==
    /\ \A s \in SlotIds4 : batteryBox[s].occupied
    /\ \E s \in SlotIds4 : FindBattery4(batteries, s) = NoBattery

\* C26: on lesson4, after checkCircuit returns, the bulb is lit iff slot 1
\* holds a battery with its tip to the box's -X, slot 2 holds a battery with
\* its tip to the box's +X and isSwitchClosed is true; when checkCircuit
\* takes its early return the bulb is dark.
C26_LitIffBoxFilledAndClosed ==
    (page = "lesson4" /\ Checked) =>
        /\ bulbOn <=> (Holds4(1, -1) /\ Holds4(2, 1) /\ isSwitchClosed)
        /\ EarlyReturn4 => ~bulbOn

\* the tween of a closing toggle has just called checkCircuit, which returned
\* early: battery 1 was moved from slot 1 to slot 2, slot 1 is still flagged
\* occupied
C26_Witness ==
    /\ page = "lesson4" /\ TweenChecks # {} /\ isSwitchClosed
    /\ EarlyReturn4 /\ batteries[1].inSlot = 2 /\ ~bulbOn

\* ------------------------------------------------------------------- C27
\* a drop of battery b within snapping distance of slot s alone puts it there
Accepts4(b, s) == checkDrop4(batteryBox, batteries, b, {s}).batteries[b].inSlot = s

\* C27 (as claimed): on lesson4 a slot's occupied flag is true iff some
\* battery has inSlot equal to the slot's id, and a slot that holds no
\* battery accepts a battery dropped within snapping distance of it.
C27_OccupiedIffHeld ==
    page = "lesson4" =>
        \A s \in SlotIds4 :
            /\ batteryBox[s].occupied <=> (\E b \in BatteryIds4 : batteries[b].inSlot = s)
            /\ (\A b \in BatteryIds4 : batteries[b].inSlot # s) =>
                   \A b \in BatteryIds4 : Accepts4(b, s)

\* ------------------------------------------------------------------- C28
\* the batteries that sit in slot s of the box of circuit c
Sitting5(c, s) ==
    {b \in BatteryIds : allBatteries[b].inSlot = <<c, s>> /\ allBatteries[b].parentBox = c}

\* C28: on lesson5 a slot's occupied flag is true iff exactly one battery has
\* inSlot equal to the slot and parentBox equal to its box; no two batteries
\* are in one slot; inSlot and parentBox of a battery are both null or both
\* set (and then inSlot is a slot of the box parentBox).
C28_SlotsAndBatteriesAgree ==
    page = "lesson5" =>
        /\ \A c \in CircuitIds : \A s \in SlotIds :
              /\ circuits[c].slots[s].occupied <=> Cardinality(Sitting5(c, s)) = 1
              /\ Cardinality(Sitting5(c, s)) <= 1
        /\ \A b \in BatteryIds :
              /\ allBatteries[b].inSlot = NoSlot <=> allBatteries[b].parentBox = NoBox
              /\ allBatteries[b].inSlot # NoSlot =>
                     allBatteries[b].inSlot[1] = allBatteries[b].parentBox

\* a battery created for the series circuit has just been dropped into the
\* parallel box, which is full now; the series box is empty
C28_Witness ==
    /\ page = "lesson5" /\ ~isDragging
    /\ allBatteries[1].parentBox = 1
    /\ \A s \in SlotIds : circuits[1].slots[s].occupied /\ ~circuits[0].slots[s].occupied
    /\ stepLog = HandlerChecksAll5

\* ------------------------------------------------------------------- C29
\* the mouseup of a drag gesture on battery b
DragEnds(b) == isDragging /\ dragObject = b /\ ~isDragging'

\* C29 (as claimed): on lesson4 and lesson5 the click event the browser
\* delivers after the mouseup of a battery drag, the battery still under the
\* pointer, does not rotate the battery: the click handler, run in the state
\* the mouseup handler leaves, leaves rotation.y of the battery as it is.
C29_DragClickKeepsRotation ==
    [][ /\ page = "lesson4" =>
              \A b \in BatteryIds4 :
                  DragEnds(b) =>
                      clickBattery(isDragging', batteries', b)[b].rotationY
                          = batteries'[b].rotationY
        /\ page = "lesson5" =>
              \A b \in BatteryIds :
                  DragEnds(b) =>
                      clickBattery(isDragging', allBatteries', b)[b].rotationY
                          = allBatteries'[b].rotationY ]_vars

\* ------------------------------------------------------------------- C30
\* C30 (as claimed): on lesson4, after every checkCircuit call and after
\* reset, the success message is visible iff the bulb is lit; a battery
\* taken out of its slot while the bulb is lit darkens the bulb and hides
\* the message.
C30_MessageIffLit4 ==
    (page = "lesson4" /\ Checked) => (msgDisplay = "block" <=> bulbOn)

====
